---- MODULE Spec2Model ----
(***************************************************************************)
(* Model of the content-filtering pipeline of YouTube Watch Guard:         *)
(*   - the scan scheduler, tile actions and change reactor of              *)
(*     hideUnwantedContent.js (direct-classification revision),            *)
(*   - the URL observer of the content-script entry point,                 *)
(*   - the batch classification helpers of src/classificationUtils.js.     *)
(* Strings that the code parses (the synthetic ids "t0", "p1", ...) are    *)
(* sequences of one-character strings; every other string is opaque.       *)
(***************************************************************************)
EXTENDS Integers, Sequences, FiniteSets, TLC

(***************************************************************************)
(* Bounds of the model.                                                    *)
(***************************************************************************)
NumTiles == 2          \* tile nodes the host page can create
MaxTexts == 2          \* texts of a batch in the pure-function checks
MaxTopics == 2         \* topics of a topic list
MaxMapTopics == 2      \* topics of a direct call of the batch helpers
MaxResults == 2        \* result entries of a classifier response
MaxPendingLoads == 1   \* storage reads of the change listener in flight
MaxUrlTimers == 1      \* URL-change timers pending
MaxInFlight == 2       \* scan cycles the model can hold in flight

(***************************************************************************)
(* Strings as character sequences, and the two String methods the id       *)
(* round trip uses.                                                        *)
(***************************************************************************)
Null == "null"

Digits == <<"0", "1", "2", "3", "4", "5", "6", "7", "8", "9">>

\* The digits of radix 16 past 9, in both cases.
HexLower == <<"a", "b", "c", "d", "e", "f">>

HexUpper == <<"A", "B", "C", "D", "E", "F">>

\* c is a digit of the radix (10 or 16).
IsDigit(c, radix) ==
    \/ \E d \in 1..10 : Digits[d] = c
    \/ radix = 16 /\ \E d \in 1..6 : c \in {HexLower[d], HexUpper[d]}

DigitVal(c, radix) ==
    IF \E d \in 1..10 : Digits[d] = c
    THEN (CHOOSE d \in 1..10 : Digits[d] = c) - 1
    ELSE (CHOOSE d \in 1..6 : c \in {HexLower[d], HexUpper[d]}) + 9

\* WhiteSpace and LineTerminator of ECMAScript, the characters parseInt skips
\* and String.prototype.trim strips: tab, line feed, vertical tab, form feed,
\* carriage return, space, no-break space, the byte order mark, the line and
\* paragraph separators and the space separators of Unicode.  A character
\* without a printable form is written as its code point.
WhiteSpaceChars ==
    {" ", "\t", "\n", "\f", "\r", "U+000B", "U+00A0", "U+FEFF", "U+2028", "U+2029",
     "U+1680", "U+2000", "U+2001", "U+2002", "U+2003", "U+2004", "U+2005",
     "U+2006", "U+2007", "U+2008", "U+2009", "U+200A", "U+202F", "U+205F",
     "U+3000"}

IsSpace(c) == c \in WhiteSpaceChars

\* Number.prototype.toString for a non-negative integer, as characters.
RECURSIVE ToDecimal(_)
ToDecimal(n) ==
    IF n < 10 THEN <<Digits[n + 1]>>
    ELSE ToDecimal(n \div 10) \o <<Digits[(n % 10) + 1]>>

\* String.prototype.replace(c, ''): drops the first occurrence of c.
RECURSIVE replace(_, _)
replace(s, c) ==
    IF s = <<>> THEN <<>>
    ELSE IF Head(s) = c THEN Tail(s)
    ELSE <<Head(s)>> \o replace(Tail(s), c)

RECURSIVE SkipSpaces(_)
SkipSpaces(s) ==
    IF s # <<>> /\ IsSpace(Head(s)) THEN SkipSpaces(Tail(s)) ELSE s

\* Value of the longest prefix of s made of digits of the radix, continuing
\* from acc.
RECURSIVE DigitRun(_, _, _)
DigitRun(s, radix, acc) ==
    IF s # <<>> /\ IsDigit(Head(s), radix)
    THEN DigitRun(Tail(s), radix, radix * acc + DigitVal(Head(s), radix))
    ELSE acc

\* parseInt(s) without a radix: leading white space, an optional sign, the
\* prefix 0x or 0X that selects radix 16, then the longest run of digits of
\* the radix; NaN when there is no digit at that place.
parseInt(s) ==
    LET t == SkipSpaces(s)
        signed == t # <<>> /\ Head(t) \in {"-", "+"}
        u == IF signed THEN Tail(t) ELSE t
        hex == Len(u) >= 2 /\ u[1] = "0" /\ u[2] \in {"x", "X"}
        radix == IF hex THEN 16 ELSE 10
        z == IF hex THEN Tail(Tail(u)) ELSE u
    IN  IF z = <<>> \/ ~IsDigit(Head(z), radix)
        THEN [nan |-> TRUE, val |-> 0]
        ELSE [nan |-> FALSE,
              val |-> IF signed /\ Head(t) = "-" THEN 0 - DigitRun(z, radix, 0)
                      ELSE DigitRun(z, radix, 0)]

\* The comparison `x >= 0 && x < n` of the code; false for NaN.
InRange(x, n) == ~x.nan /\ x.val >= 0 /\ x.val < n

\* Variant: ids counted from 1.
generateIdOneBased(prefix, index) == <<prefix>> \o ToDecimal(index + 1)

generateId(prefix, index) == <<prefix>> \o ToDecimal(index)

(***************************************************************************)
(* src/classificationUtils.js: the remote classifier call and the mapping  *)
(* of its response back to input order.                                    *)
(*   A response is [kind, results]: kind "ok" is a 2xx body with a results *)
(*   array, "noresults" a 2xx body without one, "httperror" a non-2xx      *)
(*   answer, "neterror" a rejected fetch and "badbody" a 2xx body that is  *)
(*   not JSON or is the JSON value null.                                   *)
(***************************************************************************)
Indices(seq) == 1..Len(seq)

\* The JSON body of the POST request (provider and model are constants).
requestBody(texts, topics) ==
    [texts  |-> [i \in Indices(texts) |->
                    [id |-> generateId("t", i - 1), text |-> texts[i]]],
     topics |-> [j \in Indices(topics) |->
                    [id |-> generateId("p", j - 1), topic |-> topics[j]]],
     provider |-> "GEMINI",
     model_name |-> "gemini-2.5-flash"]

\* One iteration of `for (const result of data.results)`.
mapResultEntry(acc, result, texts, topics) ==
    LET textIndex == parseInt(replace(result.text_id, "t"))
    IN  IF InRange(textIndex, Len(texts))
        THEN IF Len(result.topic_ids) > 0
             THEN LET topicIndex == parseInt(replace(result.topic_ids[1], "p"))
                  IN  IF InRange(topicIndex, Len(topics))
                      THEN [acc EXCEPT ![textIndex.val + 1] = topics[topicIndex.val + 1]]
                      ELSE acc
             ELSE acc
        ELSE acc

RECURSIVE mapResults(_, _, _, _)
mapResults(acc, results, texts, topics) ==
    IF results = <<>> THEN acc
    ELSE mapResults(mapResultEntry(acc, Head(results), texts, topics),
                    Tail(results), texts, topics)

Threw == [threw |-> TRUE, fetched |-> FALSE, value |-> <<>>]

\* classifyTextsBatch(texts, topics) when the backend answers resp.
\* fetched tells whether the HTTP request was issued.
classifyTextsBatch(texts, topics, resp) ==
    IF Len(texts) = 0 \/ Len(topics) = 0 THEN Threw
    ELSE IF resp.kind \in {"neterror", "httperror", "badbody"}
         THEN [Threw EXCEPT !.fetched = TRUE]
    ELSE IF resp.kind = "ok"
         THEN [threw |-> FALSE, fetched |-> TRUE,
               value |-> mapResults([i \in Indices(texts) |-> Null],
                                    resp.results, texts, topics)]
    ELSE [threw |-> FALSE, fetched |-> TRUE,
          value |-> [i \in Indices(texts) |-> Null]]

\* Variant: the catch block rethrows instead of falling back to "show".
batchClassifyVideoContextsRethrow(videoContexts, topics, resp) ==
    IF Len(videoContexts) = 0 THEN [threw |-> FALSE, value |-> <<>>]
    ELSE IF Len(topics) = 0
         THEN [threw |-> FALSE, value |-> [i \in Indices(videoContexts) |-> FALSE]]
    ELSE LET batchResults == classifyTextsBatch(videoContexts, topics, resp)
         IN  [threw |-> batchResults.threw,
              value |-> [i \in Indices(videoContexts) |->
                            ~batchResults.threw /\ batchResults.value[i] # Null]]

\* Variant: `topic !== undefined` instead of `topic !== null`.
batchClassifyVideoContextsUndefined(videoContexts, topics, resp) ==
    IF Len(videoContexts) = 0 THEN [threw |-> FALSE, value |-> <<>>]
    ELSE IF Len(topics) = 0
         THEN [threw |-> FALSE, value |-> [i \in Indices(videoContexts) |-> FALSE]]
    ELSE LET batchResults == classifyTextsBatch(videoContexts, topics, resp)
         IN  [threw |-> FALSE,
              value |-> [i \in Indices(videoContexts) |-> ~batchResults.threw]]

\* batchClassifyVideoContexts(videoContexts, excludedTopics): the hide
\* decisions, all false when the classification throws. threw tells whether
\* an exception leaves the function.
batchClassifyVideoContexts(videoContexts, topics, resp) ==
    IF Len(videoContexts) = 0 THEN [threw |-> FALSE, value |-> <<>>]
    ELSE IF Len(topics) = 0
         THEN [threw |-> FALSE, value |-> [i \in Indices(videoContexts) |-> FALSE]]
    ELSE LET batchResults == classifyTextsBatch(videoContexts, topics, resp)
         IN  IF batchResults.threw
             THEN [threw |-> FALSE,
                   value |-> [i \in Indices(videoContexts) |-> FALSE]]
             ELSE [threw |-> FALSE,
                   value |-> [i \in Indices(videoContexts) |->
                                 batchResults.value[i] # Null]]

(***************************************************************************)
(* JavaScript values passed as texts or topics: a value is [kind, items],  *)
(* items being the elements of an array and the characters of a string.    *)
(***************************************************************************)
JsArray(items) == [kind |-> "array", items |-> items]

JsOther(kind) == [kind |-> kind, items |-> <<>>]

isArray(v) == v.kind = "array"

\* Variant: the test without the length check.
IsNotArray(v) == ~isArray(v)

\* `!Array.isArray(x) || x.length === 0`, the test every entry point makes.
IsEmptyOrNotArray(v) == ~isArray(v) \/ Len(v.items) = 0

\* texts.map((text, index) => ({id: generateId('t', index), text}))
textsWithIds(texts) ==
    [i \in Indices(texts) |-> [id |-> generateId("t", i - 1), text |-> texts[i]]]

topicsWithIds(topics) ==
    [j \in Indices(topics) |-> [id |-> generateId("p", j - 1), topic |-> topics[j]]]

(***************************************************************************)
(* The error of a failed HTTP exchange.  A non-2xx answer has a status and *)
(* an error body: errBody is "notjson", "null", "nodetail" (an object      *)
(* without a detail array, detailText being its detail string if any) or   *)
(* "detail" (detail is an array of entries [hasMsg, msg]).  A message is a *)
(* sequence of string pieces.                                              *)
(***************************************************************************)
RECURSIVE join(_, _)
join(parts, sep) ==
    IF parts = <<>> THEN <<>>
    ELSE IF Len(parts) = 1 THEN <<parts[1]>>
    ELSE <<parts[1], sep>> \o join(Tail(parts), sep)

\* errorData.detail.map(err => err.msg || 'Unknown error')
errorMessages(detail) ==
    [k \in Indices(detail) |->
        IF detail[k].hasMsg /\ detail[k].msg # "" THEN detail[k].msg
        ELSE "Unknown error"]

SyntaxErrorMessage == <<"Unexpected token < in JSON at position 0">>

TypeErrorMessage == <<"Cannot read properties of null">>

FetchErrorMessage == <<"Failed to fetch">>

\* The message of the error thrown for a response that makes the call fail.
classificationError(resp) ==
    IF resp.kind = "neterror" THEN FetchErrorMessage
    ELSE IF resp.kind = "badbody"
         THEN IF resp.errBody = "notjson" THEN SyntaxErrorMessage
              ELSE TypeErrorMessage
    ELSE IF resp.errBody = "notjson" THEN SyntaxErrorMessage
    ELSE IF resp.errBody = "null" THEN TypeErrorMessage
    ELSE IF resp.errBody = "detail"
         THEN <<"Classification API error: ">> \o ToDecimal(resp.status)
                 \o <<" - ">> \o join(errorMessages(resp.detail), ", ")
    ELSE <<"Classification API error: ">> \o ToDecimal(resp.status)

(***************************************************************************)
(* contentScript/textClassifierServer.js: ServerTextClassifier.classify.   *)
(* The outcome of a call is [threw, message, value, fetches, sent]:        *)
(* fetches counts HTTP requests issued, sent the runtime messages sent.    *)
(***************************************************************************)
InvalidTexts ==
    [threw |-> TRUE, message |-> <<"Texts must be a non-empty array">>,
     value |-> <<>>, fetches |-> 0, sent |-> 0]

InvalidTopics ==
    [InvalidTexts EXCEPT !.message = <<"Topics must be a non-empty array">>]

\* texts.map(text => ({text_id: text.id, topic_ids: []}))
emptyMatches(texts) ==
    [i \in Indices(texts) |-> [text_id |-> texts[i].id, topic_ids |-> <<>>]]

ServerTextClassifier_classify(texts, topics, resp) ==
    IF IsEmptyOrNotArray(texts) THEN InvalidTexts
    ELSE IF IsEmptyOrNotArray(topics) THEN InvalidTopics
    ELSE IF resp.kind \in {"neterror", "httperror", "badbody"}
         THEN [threw |-> TRUE, message |-> classificationError(resp),
               value |-> <<>>, fetches |-> 1, sent |-> 0]
    ELSE IF resp.kind = "ok"
         THEN [threw |-> FALSE, message |-> <<>>, value |-> resp.results,
               fetches |-> 1, sent |-> 0]
    ELSE [threw |-> FALSE, message |-> <<>>, value |-> emptyMatches(texts.items),
          fetches |-> 1, sent |-> 0]

(***************************************************************************)
(* contentScript/textClassifierBuiltinAI.js: the classifier that asks the  *)
(* service worker.  A reply is [kind, success, error, results]: kind       *)
(* "lastError" when the runtime reports an error, "none" when the callback *)
(* gets no response object, "response" otherwise.                          *)
(***************************************************************************)
\* _sendMessage: the promise rejects on lastError and on success: false.
sendMessageRejects(reply) ==
    reply.kind = "lastError" \/ (reply.kind = "response" /\ ~reply.success)

sendMessageError(reply) ==
    IF reply.kind = "lastError" THEN <<"Could not establish connection">>
    ELSE IF reply.kind = "none" THEN TypeErrorMessage
    ELSE IF reply.error = <<>> THEN <<"Unknown error">>
    ELSE reply.error

BuiltInAITextClassifier_classify(texts, topics, reply) ==
    IF IsEmptyOrNotArray(texts) THEN InvalidTexts
    ELSE IF IsEmptyOrNotArray(topics) THEN InvalidTopics
    ELSE IF sendMessageRejects(reply) \/ reply.kind = "none"
         THEN [threw |-> TRUE, message |-> sendMessageError(reply),
               value |-> <<>>, fetches |-> 0, sent |-> 1]
    ELSE [threw |-> FALSE, message |-> <<>>, value |-> reply.results,
          fetches |-> 0, sent |-> 1]

\* classifier.classify(texts, topics) for the classifier named by `classifier`;
\* env holds the HTTP response and the service worker's reply.
classifierClassify(classifier, texts, topics, env) ==
    IF classifier = "server" THEN ServerTextClassifier_classify(texts, topics, env.resp)
    ELSE BuiltInAITextClassifier_classify(texts, topics, env.reply)

(***************************************************************************)
(* contentScript/classificationUtils.js: the batch helpers that receive    *)
(* the classifier as an argument ("none" is a missing classifier).         *)
(***************************************************************************)
contentScript_classifyTextsBatch(classifier, texts, topics, env) ==
    IF classifier = "none"
    THEN [InvalidTexts EXCEPT !.message = <<"Valid classifier instance required">>]
    ELSE IF IsEmptyOrNotArray(texts) THEN InvalidTexts
    ELSE IF IsEmptyOrNotArray(topics) THEN InvalidTopics
    ELSE LET results == classifierClassify(classifier,
                            JsArray(textsWithIds(texts.items)),
                            JsArray(topicsWithIds(topics.items)), env)
         IN  IF results.threw THEN results
             ELSE [results EXCEPT !.value =
                      mapResults([i \in Indices(texts.items) |-> Null],
                                 results.value, texts.items, topics.items)]

contentScript_batchClassifyVideoContexts(classifier, videoContexts, topics, env) ==
    IF IsEmptyOrNotArray(videoContexts) THEN <<>>
    ELSE IF IsEmptyOrNotArray(topics)
         THEN [i \in Indices(videoContexts.items) |-> FALSE]
    ELSE LET batchResults ==
                 contentScript_classifyTextsBatch(classifier, videoContexts, topics, env)
         IN  IF batchResults.threw
             THEN [i \in Indices(videoContexts.items) |-> FALSE]
             ELSE [i \in Indices(videoContexts.items) |->
                      batchResults.value[i] # Null]

(***************************************************************************)
(* State of the content script and of its environment.                     *)
(***************************************************************************)
VARIABLES
    storage,          \* chrome.storage.local: the keys topics and videoAction
    excludedTopics,   \* module variable of hideUnwantedContent.js
    videoAction,      \* module variable, "hide" or "delete"
    isScanning,       \* the single-flight flag
    scanTimeout,      \* debouncedScan's timer handle: "null", "pending", "stale"
    debounceTimers,   \* number of live timers created by debouncedScan
    observerTimeout,  \* live timers of the shared mutation observer's debounce
    urlTimers,        \* live 500 ms timers of the URL observer
    pendingLoads,     \* loadSettings() calls of the change listener in flight
    processedVideos,  \* the WeakSet of decided tiles
    cycles,           \* scanForVideos activations suspended at their await
    dom,              \* the host document's tiles
    href,             \* window.location.href
    currentUrl,       \* the URL observer's remembered URL
    batchCount,       \* per tile: batches it was part of since the last invalidation
    ev,               \* the handler that ran last, and what it did
    mapCall,          \* a direct call of a pure helper: its arguments
    mapOut,           \* and its result
    gw,               \* a direct call of a classifier entry point and its outcome
    availability,     \* what LanguageModel.availability() answers, or "absent"
    sw,               \* the service worker's classification call in progress
    sessions,         \* the LanguageModel.create() calls made so far
    trace,            \* tile actions called directly on one tile, and their results
    popup,            \* the popup: its topic list, view and storage writes in flight
    shorts,           \* the Shorts component: setting, timers and section elements
    clock             \* the live debounce timers in the order they were started

vars == <<storage, excludedTopics, videoAction, isScanning, scanTimeout,
          debounceTimers, observerTimeout, urlTimers, pendingLoads,
          processedVideos, cycles, dom, href, currentUrl,
          batchCount, ev, mapCall, mapOut, gw, availability, sw, sessions, trace,
          popup, shorts, clock>>

\* The variables of the classifier entry points, of the service worker, of
\* the popup and of the Shorts component.
serviceVars == <<gw, availability, sw, sessions, trace, popup, shorts>>

\* The same, with the timers' clock: what a handler that starts and fires no
\* timer leaves alone.
gatewayVars == <<serviceVars, clock>>

pipelineVars == <<storage, excludedTopics, videoAction, isScanning, scanTimeout,
                  debounceTimers, observerTimeout, urlTimers, pendingLoads,
                  processedVideos, cycles, dom, href, currentUrl,
                  batchCount, ev, clock>>

Tiles == 1..NumTiles

TopicPool == <<"cricket", "tennis", "bollywood", "politics">>

\* The topic lists the popup can store: the contiguous runs of the pool.
TopicLists ==
    {<<>>} \cup {SubSeq(TopicPool, i, j) : i \in 1..MaxTopics, j \in 1..MaxTopics}

TitlePool == <<"India wins World Cup", "Best Pasta Recipe", "Tennis Final", "News">>

ChannelPool == <<"ESPN", "ChefTube", "SportsTV", "Daily">>

\* Page URLs, one per page mode.
HomeUrl == "https://www.youtube.com/"

SearchUrl == "https://www.youtube.com/results?search_query=x"

WatchUrl == "https://www.youtube.com/watch?v=1"

Urls == {HomeUrl, SearchUrl, WatchUrl}

\* The value of currentUrl while content.js has not created its URL observer.
NoUrl == "none"

\* A tile node that is not (yet) created by the host page.
AbsentTile ==
    [status |-> "absent", tag |-> "ytd-rich-item-renderer",
     title |-> Null, channel |-> Null,
     cls |-> FALSE, opacity |-> "", pointerEvents |-> "", position |-> "",
     display |-> "", indicators |-> 0]

\* ev after a handler that is no scan cycle and clears nothing.
NoEv == [op |-> "none", batch |-> <<>>, decisions |-> <<>>, topics |-> <<>>,
         request |-> <<>>, resp |-> [kind |-> "pending", results |-> <<>>],
         cleared |-> FALSE]

(***************************************************************************)
(* hideUnwantedContent.js: context extraction and the tile actions, as     *)
(* functions of one tile node.                                             *)
(***************************************************************************)
\* extractVideoTitle / extractChannelName: the first non-empty trimmed text
\* the sub-selectors find, or null.
extractVideoTitle(el) == el.title

extractChannelName(el) == el.channel

\* Variant: the title alone whenever a title is found.
extractVideoContextTitleOnly(el) ==
    LET title == extractVideoTitle(el)
        channelName == extractChannelName(el)
    IN  IF title = Null /\ channelName = Null THEN Null
        ELSE IF title # Null THEN title
        ELSE channelName

extractVideoContext(el) ==
    LET title == extractVideoTitle(el)
        channelName == extractChannelName(el)
    IN  IF title = Null /\ channelName = Null THEN Null
        ELSE IF title # Null /\ channelName # Null
             THEN title \o " - " \o channelName
        ELSE IF title # Null THEN title
        ELSE channelName

\* Variant: hideVideo without the check of the marker class.
hideVideoUnguarded(el) ==
    LET marked ==
            [el EXCEPT !.cls = TRUE, !.opacity = "0.4",
                       !.pointerEvents = "none", !.position = "relative",
                       !.indicators = @ + 1]
    IN  IF marked.display = "none" THEN [marked EXCEPT !.display = ""] ELSE marked

hideVideo(el) ==
    LET marked ==
            IF ~el.cls
            THEN [el EXCEPT !.cls = TRUE, !.opacity = "0.4",
                            !.pointerEvents = "none", !.position = "relative",
                            !.indicators = @ + 1]
            ELSE el
    IN  IF marked.display = "none" THEN [marked EXCEPT !.display = ""] ELSE marked

\* Variant: showVideo that leaves the indicator in place.
showVideoKeepIndicator(el) ==
    LET cleared ==
            IF el.cls
            THEN [el EXCEPT !.cls = FALSE, !.opacity = "", !.pointerEvents = ""]
            ELSE el
    IN  IF cleared.display = "none" THEN [cleared EXCEPT !.display = ""] ELSE cleared

\* Variant: the earlier revision of showVideo, which leaves display alone.
showVideoKeepDisplay(el) ==
    IF el.cls
    THEN [el EXCEPT !.cls = FALSE, !.opacity = "", !.pointerEvents = "",
                    !.indicators = IF @ > 0 THEN @ - 1 ELSE 0]
    ELSE el

showVideo(el) ==
    LET cleared ==
            IF el.cls
            THEN [el EXCEPT !.cls = FALSE, !.opacity = "", !.pointerEvents = "",
                            !.indicators = IF @ > 0 THEN @ - 1 ELSE 0]
            ELSE el
    IN  IF cleared.display = "none" THEN [cleared EXCEPT !.display = ""] ELSE cleared

\* Variant: deleteVideo as parentNode.removeChild(videoElement).
deleteVideoRemoveChild(el) ==
    IF el.status = "attached" THEN [el EXCEPT !.status = "detached"] ELSE el

\* parentNode is non-null exactly for a tile that is attached.
deleteVideo(el) ==
    IF el.status = "attached" THEN [el EXCEPT !.display = "none"] ELSE el

\* The regular expressions of getVideoSelectorsForPage, on the model's URLs.
IsSearchUrl(url) == url = SearchUrl

IsWatchUrl(url) == url = WatchUrl

getVideoSelectorsForPage(url) ==
    IF IsSearchUrl(url) THEN <<"ytd-video-renderer", "ytd-compact-video-renderer">>
    ELSE IF IsWatchUrl(url) THEN <<"ytm-shorts-lockup-view-model-v2", "yt-lockup-view-model">>
    ELSE <<"ytd-rich-item-renderer">>

\* Variant: every attached tile, whatever its tag name.
querySelectorAllAnyTag(selector) ==
    SelectSeq([t \in Tiles |-> t], LAMBDA t : dom[t].status = "attached")

\* document.querySelectorAll(selector): the attached tiles with that tag
\* name, in document order.
querySelectorAll(selector) ==
    SelectSeq([t \in Tiles |-> t],
              LAMBDA t : dom[t].status = "attached" /\ dom[t].tag = selector)

RECURSIVE videoElementsOf(_)
videoElementsOf(selectors) ==
    IF selectors = <<>> THEN <<>>
    ELSE querySelectorAll(Head(selectors)) \o videoElementsOf(Tail(selectors))

\* Variant: tiles are collected whether or not a context was extracted.
UnprocessedAnyContext ==
    SelectSeq(videoElementsOf(getVideoSelectorsForPage(href)),
              LAMBDA t : t \notin processedVideos)

\* The tiles scanForVideos collects: not yet processed, with a context.
Unprocessed ==
    SelectSeq(videoElementsOf(getVideoSelectorsForPage(href)),
              LAMBDA t : t \notin processedVideos
                         /\ extractVideoContext(dom[t]) # Null)

SeqRange(seq) == {seq[i] : i \in Indices(seq)}

(***************************************************************************)
(* The classifier backend, as the scan cycle sees it.                      *)
(***************************************************************************)
NoResp == [kind |-> "pending", results |-> <<>>]

\* topic_ids a backend may answer for one text when the request carried m
\* topics: none, the last topic, or an id one past the last topic.
TopicIdChoices(m) ==
    {<<>>, <<generateId("p", m)>>}
    \cup (IF m > 0 THEN {<<generateId("p", m - 1)>>} ELSE {})

\* The answers of the backend to a request: a failure, a body without
\* results, or one entry per text of the request, in request order.
BackendResponses(request) ==
    {[kind |-> k, results |-> <<>>] : k \in {"neterror", "httperror", "noresults"}}
    \cup
    {[kind |-> "ok",
      results |-> [i \in Indices(request.texts) |->
                      [text_id |-> request.texts[i].id, topic_ids |-> f[i]]]] :
        f \in [Indices(request.texts) -> TopicIdChoices(Len(request.topics))]}

(***************************************************************************)
(* hideUnwantedContent.js: timers, invalidation and the scan cycle.        *)
(***************************************************************************)
\* Variant: the pending timer is not cancelled.
clearTimeoutNoop(handle, live) == live

\* clearTimeout(handle) on the live debounce timers.
clearTimeoutOf(handle, live) ==
    IF handle # "null" /\ live > 0 THEN live - 1 ELSE live

\* Where the clock is not kept (timed is FALSE) a timer that was started
\* may fire at any later step. Where it is kept, timers lists the live
\* debounce timers, oldest first, each due or not; sinceTick counts the
\* debounce delays that have passed since the interval timer's last tick.
NoClock == [timed |-> FALSE, timers |-> <<>>, sinceTick |-> 0]

SCAN_INTERVAL == 5000

DEBOUNCE_DELAY == 250

\* Debounce delays that fit into one period of the interval timer.
IntervalGap == SCAN_INTERVAL \div DEBOUNCE_DELAY

Without(timers, name) == SelectSeq(timers, LAMBDA e : e.name # name)

\* clearTimeout(handle) of timer name.
stopTimer(c, name) ==
    IF c.timed THEN [c EXCEPT !.timers = Without(c.timers, name)] ELSE c

\* clearTimeout(handle); handle = setTimeout(callback, DEBOUNCE_DELAY): the
\* timer becomes the youngest one, a full delay away from firing.
startTimer(c, name) ==
    IF c.timed
    THEN [c EXCEPT !.timers = Append(Without(c.timers, name),
                                     [name |-> name, due |-> FALSE])]
    ELSE c

\* Timers of equal delay fire in the order they were started, each when its
\* delay has passed.
TimerDue(name) ==
    clock.timed => /\ clock.timers # <<>>
                   /\ Head(clock.timers) = [name |-> name, due |-> TRUE]

\* The interval timer fires once per SCAN_INTERVAL.
IntervalDue == clock.timed => clock.sinceTick = IntervalGap

\* debouncedScan(): cancel the pending timer, start a new one.
debouncedScan ==
    /\ debounceTimers' = clearTimeoutOf(scanTimeout, debounceTimers) + 1
    /\ scanTimeout' = "id"

ZeroCount == [t \in Tiles |-> 0]

\* The URL observer's callback, run after a handler in which the document's
\* child lists were mutated (mutated), that leaves the decided set P and the
\* batch counts B: on a new URL it clears the decided set and starts the
\* 500 ms timer. event describes the handler; cleared is recorded in it.
\* Before initialize() has created the observer no callback runs.
urlObserver(mutated, P, B, event) ==
    LET changed == mutated /\ currentUrl # NoUrl /\ href # currentUrl
    IN  /\ ev' = [event EXCEPT !.cleared = changed]
        /\ currentUrl' = IF changed THEN href ELSE currentUrl
        /\ processedVideos' = IF changed THEN {} ELSE P
        /\ batchCount' = IF changed THEN ZeroCount ELSE B
        /\ urlTimers' = IF changed THEN urlTimers + 1 ELSE urlTimers

\* Variant: no single-flight guard.
ScanGuardOff == TRUE

\* The single-flight guard of scanForVideos: `if (isScanning) return`.
ScanGuard == ~isScanning

\* Variant: the results are mapped with the module's current topic list.
BatchTopicsLive(cycle) == excludedTopics

\* The topics parameter a suspended classification call maps its results with.
BatchTopics(cycle) == cycle.topics

\* The topic list scanForVideos hands to batchClassifyVideoContexts.
DispatchTopics == excludedTopics

CountUp(B, batch) ==
    [t \in Tiles |-> IF t \in SeqRange(batch) /\ B[t] < 2 THEN B[t] + 1 ELSE B[t]]

\* scanForVideos() up to its first suspension: skipped when a cycle is in
\* flight; otherwise it collects the unprocessed tiles and either dispatches
\* one batch and suspends, or ends at once.
scanForVideos ==
    IF ~ScanGuard
    THEN /\ ev' = [NoEv EXCEPT !.op = "skipped"]
         /\ UNCHANGED <<isScanning, cycles, batchCount>>
    ELSE LET unprocessed == Unprocessed
             contexts == [i \in Indices(unprocessed) |->
                             extractVideoContext(dom[unprocessed[i]])]
         IN  IF Len(unprocessed) > 0 /\ Len(excludedTopics) > 0
             THEN /\ Len(cycles) < MaxInFlight
                  /\ isScanning' = TRUE
                  /\ cycles' = Append(cycles,
                        [batch |-> unprocessed, contexts |-> contexts,
                         topics |-> DispatchTopics,
                         request |-> requestBody(contexts, DispatchTopics)])
                  /\ batchCount' = CountUp(batchCount, unprocessed)
                  /\ ev' = NoEv
             ELSE /\ isScanning' = FALSE
                  /\ ev' = [NoEv EXCEPT !.op = "idle", !.topics = excludedTopics]
                  /\ UNCHANGED <<cycles, batchCount>>

\* Variant: the tiles of the batch are not recorded.
markProcessedNone(P, batch) == P

\* processedVideos.add(videoElement) for every tile of the batch.
markProcessed(P, batch) == P \cup SeqRange(batch)

\* The action applied to one tile of a batch.
applyDecision(el, shouldHide, action) ==
    IF shouldHide
    THEN IF action = "delete" THEN deleteVideo(el) ELSE hideVideo(el)
    ELSE showVideo(el)

\* Variant: deleteVideo dereferences parentNode without a check, so it
\* throws a TypeError on a tile that has no parent.
applyThrowsNoParent(el, shouldHide, action) ==
    shouldHide /\ action = "delete" /\ el.status # "attached"

\* Whether the action applied to one tile throws. Each function tests
\* `videoElement &&` first; classList, style, querySelector and appendChild
\* are defined on a node without a parent, and deleteVideo tests parentNode.
applyThrows(el, shouldHide, action) == FALSE

PositionOf(batch, t) == CHOOSE i \in Indices(batch) : batch[i] = t

\* The number of tiles the loop over the batch gets through: it leaves the
\* loop at the first tile whose action throws.
appliedCount(batch, hideDecisions, action) ==
    LET throwing == {i \in Indices(batch) :
                        applyThrows(dom[batch[i]], hideDecisions[i], action)}
    IN  IF throwing = {} THEN Len(batch)
        ELSE (CHOOSE i \in throwing : \A j \in throwing : i <= j) - 1

\* loadSettings(): `result.topics || []` and `result.videoAction || 'delete'`.
\* hasTopics is false while the key `topics` was never stored.
loadedTopics(result) == IF result.hasTopics THEN result.topics ELSE <<>>

loadedVideoAction(result) ==
    IF result.videoAction = Null THEN "delete" ELSE result.videoAction

(***************************************************************************)
(* Initial state: the component is initialised on a page without tiles,    *)
(* with nothing stored; the initial scan found nothing to do.              *)
(***************************************************************************)
NoCall == [texts |-> <<>>, topics |-> <<>>, resp |-> NoResp]

NoOut == [done |-> FALSE, threw |-> FALSE, fetched |-> FALSE,
          matched |-> <<>>, decisions |-> <<>>]

\* No entry point was called, and the service worker has no call in progress.
NoGw == [done |-> FALSE]

NoOutcome == [threw |-> FALSE, message |-> <<>>, value |-> <<>>]

IdleSw ==
    [pc |-> "idle", fn |-> "classify", handler |-> FALSE,
     texts |-> [kind |-> "array", items |-> <<>>],
     topics |-> [kind |-> "array", items |-> <<>>],
     checked |-> "none", i |-> 1, session |-> 0, results |-> <<>>,
     tasks |-> <<>>, log |-> <<>>, out |-> NoOutcome]

\* No tile action was called directly.
NoTrace == [before |-> AbsentTile, ops |-> <<>>, states |-> <<>>, contexts |-> <<>>]

\* topicsModel.js loadTopics(): the stored list, or [] when the key is unset.
loadTopics(store) == IF store.hasTopics THEN store.topics ELSE <<>>

\* No topic handler of the popup has run.
NoTopicOp ==
    [op |-> "none", raw |-> <<>>, index |-> 0, threw |-> FALSE,
     before |-> <<>>, stored |-> <<>>, arg |-> <<>>]

\* The popup after DOMContentLoaded, with initializeHideUnwanted() suspended
\* at `await loadTopics()`: nothing is loaded or rendered and no listener is
\* installed.  pc is the await the initialisation is suspended at.
openPopup ==
    [pc |-> "loadTopics", topics |-> <<>>, editingIndex |-> {},
     rendered |-> [topics |-> <<>>, editingIndex |-> {}],
     videoAction |-> "delete",
     error |-> "", input |-> <<>>, writes |-> <<>>, last |-> NoTopicOp]

NumSections == 2       \* Shorts section elements the host page can create

Sections == 1..NumSections

\* The Shorts component when its module is evaluated: removeShortsSection =
\* true, removalTimeout = null, initializeYouTubeShortsContent() suspended at
\* its first await, nothing stored under the key removeShortsSection.
ShortsStart ==
    [pc |-> "loading", removeShortsSection |-> TRUE, stored |-> "undefined",
     sections |-> [x \in Sections |-> "absent"], loads |-> 0,
     observerTimeout |-> 0, removalTimeout |-> 0, retryTimer |-> 0,
     callParity |-> 0]

GatewayIdle ==
    /\ gw = NoGw
    /\ availability = "available"
    /\ sw = IdleSw
    /\ sessions = <<>>
    /\ trace = NoTrace

InitContentScript ==
    /\ storage = [hasTopics |-> FALSE, topics |-> <<>>, videoAction |-> Null]
    /\ excludedTopics = <<>>
    /\ videoAction = "delete"
    /\ isScanning = FALSE
    /\ scanTimeout = "null"
    /\ debounceTimers = 0
    /\ observerTimeout = 0
    /\ urlTimers = 0
    /\ pendingLoads = 0
    /\ processedVideos = {}
    /\ cycles = <<>>
    /\ dom = [t \in Tiles |-> AbsentTile]
    /\ href = HomeUrl
    /\ currentUrl = NoUrl
    /\ batchCount = ZeroCount
    /\ ev = NoEv
    /\ popup = openPopup
    /\ shorts = ShortsStart

InitPipeline ==
    /\ InitContentScript
    /\ clock = NoClock

Init ==
    /\ InitPipeline
    /\ mapCall = NoCall
    /\ mapOut = NoOut
    /\ GatewayIdle

\* initializeHideUnwantedContent() has run past its last await: the storage
\* listener, the interval and the shared mutation observer exist.
HideReady == shorts.pc # "hideUnwanted"

(***************************************************************************)
(* Settings store and change listener.                                     *)
(***************************************************************************)
\* The popup stores a new topic list or display action; the onChanged
\* listener, once installed, starts loadSettings().
UserChange(topics, action) ==
    /\ pendingLoads < MaxPendingLoads
    /\ \/ /\ ~storage.hasTopics \/ topics # storage.topics
          /\ action = storage.videoAction
          /\ storage' = [hasTopics |-> TRUE, topics |-> topics,
                         videoAction |-> action]
       \/ /\ action # storage.videoAction
          /\ topics = storage.topics
          /\ storage' = [storage EXCEPT !.videoAction = action]
    /\ pendingLoads' = IF HideReady THEN pendingLoads + 1 ELSE pendingLoads
    /\ ev' = NoEv
    /\ UNCHANGED <<excludedTopics, videoAction, isScanning, scanTimeout,
                   debounceTimers, observerTimeout, urlTimers, processedVideos,
                   cycles, dom, href, currentUrl, batchCount,
                   mapCall, mapOut, gatewayVars>>

\* clearProcessedVideosCache(): a new, empty WeakSet.
clearProcessedVideosCache ==
    /\ processedVideos' = {}
    /\ batchCount' = ZeroCount

\* The storage read of the listener's loadSettings() resolves (ok) or
\* rejects; then the listener clears the decided set and calls debouncedScan.
SettingsLoaded(ok) ==
    /\ pendingLoads > 0
    /\ pendingLoads' = pendingLoads - 1
    /\ excludedTopics' = IF ok THEN loadedTopics(storage) ELSE excludedTopics
    /\ videoAction' = IF ok THEN loadedVideoAction(storage) ELSE videoAction
    /\ clearProcessedVideosCache
    /\ debouncedScan
    /\ clock' = startTimer(clock, "scan")
    /\ ev' = [NoEv EXCEPT !.op = "settings", !.cleared = TRUE]
    /\ UNCHANGED <<storage, isScanning, observerTimeout, urlTimers, cycles, dom,
                   href, currentUrl, mapCall, mapOut, serviceVars>>

(***************************************************************************)
(* Timers.                                                                 *)
(***************************************************************************)
\* setInterval(debouncedScan, SCAN_INTERVAL)
IntervalTick ==
    /\ HideReady
    /\ IntervalDue
    /\ debouncedScan
    /\ clock' = [startTimer(clock, "scan") EXCEPT !.sinceTick = 0]
    /\ ev' = NoEv
    /\ UNCHANGED <<storage, excludedTopics, videoAction, isScanning,
                   observerTimeout, urlTimers, pendingLoads, processedVideos,
                   cycles, dom, href, currentUrl, batchCount,
                   mapCall, mapOut, serviceVars>>

\* The shared mutation observer's own debounce timer fires: debouncedScan().
ObserverTimeoutFire ==
    /\ observerTimeout > 0
    /\ TimerDue("observer")
    /\ observerTimeout' = observerTimeout - 1
    /\ debouncedScan
    /\ clock' = startTimer(stopTimer(clock, "observer"), "scan")
    /\ ev' = NoEv
    /\ UNCHANGED <<storage, excludedTopics, videoAction, isScanning, urlTimers,
                   pendingLoads, processedVideos, cycles, dom, href,
                   currentUrl, batchCount, mapCall, mapOut, serviceVars>>

\* The debounce timer fires: scanForVideos().
ScanTimeoutFire ==
    /\ debounceTimers > 0
    /\ TimerDue("scan")
    /\ debounceTimers' = debounceTimers - 1
    /\ scanForVideos
    /\ clock' = stopTimer(clock, "scan")
    /\ UNCHANGED <<storage, excludedTopics, videoAction, scanTimeout,
                   observerTimeout, urlTimers, pendingLoads, processedVideos,
                   dom, href, currentUrl, mapCall, mapOut, serviceVars>>

\* A debounce delay passes: every live timer is due. The callbacks of the
\* timers that are due run before more time passes.
Elapse ==
    /\ clock.timed
    /\ clock.sinceTick < IntervalGap
    /\ \A i \in DOMAIN clock.timers : ~clock.timers[i].due
    /\ clock' = [clock EXCEPT !.sinceTick = @ + 1,
                              !.timers = [i \in DOMAIN @ |-> [@[i] EXCEPT !.due = TRUE]]]
    /\ UNCHANGED <<storage, excludedTopics, videoAction, isScanning, scanTimeout,
                   debounceTimers, observerTimeout, urlTimers, pendingLoads,
                   processedVideos, cycles, dom, href, currentUrl, batchCount,
                   ev, mapCall, mapOut, serviceVars>>

\* The URL observer's 500 ms timer fires: scanForVideos().
UrlTimerFire ==
    /\ urlTimers > 0
    /\ urlTimers' = urlTimers - 1
    /\ scanForVideos
    /\ UNCHANGED <<storage, excludedTopics, videoAction, scanTimeout,
                   debounceTimers, observerTimeout, pendingLoads,
                   processedVideos, dom, href, currentUrl,
                   mapCall, mapOut, gatewayVars>>

(***************************************************************************)
(* The host page.                                                          *)
(***************************************************************************)
\* Variant: the shared observer reacts to every added element.
ObservedSelectorsAnyElement ==
    {"ytd-rich-item-renderer", "ytd-video-renderer",
     "ytd-compact-video-renderer", "ytd-grid-video-renderer", "div"}

\* The selector list the shared observer is created with.
ObservedSelectors ==
    {"ytd-rich-item-renderer", "ytd-video-renderer",
     "ytd-compact-video-renderer", "ytd-grid-video-renderer"}

\* A node appended to the document: its tag name and the tag names of the
\* elements below it.
AddedNode(tag, descendants) == [tag |-> tag, descendants |-> descendants]

\* The wrapper of a tile that is appended as it is.
NoWrapper == "none"

\* The wrappers the host page puts around a tile: none, a plain container,
\* and a container that is on the shared observer's selector list.
Wrappers == {NoWrapper, "div", "ytd-grid-video-renderer"}

\* The node the host page appends with tile tag: the tile, or a wrapper
\* element with the tile below it. A rendered tile holds its text elements.
InsertedNode(tag, rendered, wrapper) ==
    LET texts == IF rendered THEN {"yt-formatted-string"} ELSE {}
    IN  IF wrapper = NoWrapper THEN AddedNode(tag, texts)
        ELSE AddedNode(wrapper, {tag} \cup texts)

\* The shared observer exists, and for one of its selectors the added node
\* matches (node.matches) or holds a matching element (node.querySelector).
Observed(node) ==
    /\ HideReady
    /\ \E selector \in ObservedSelectors :
          \/ node.tag = selector
          \/ selector \in node.descendants

\* createSharedMutationObserver: an added node that matches a selector, or
\* holds an element that does, starts (or restarts) the observer's debounce
\* timer.
sharedObserver(node) ==
    observerTimeout' = IF Observed(node) THEN 1 ELSE observerTimeout

\* The host page inserts tile t, with or without its title and channel, as
\* it is or inside a wrapper element that no page mode's selectors match.
HostInsert(t, tag, rendered, wrapper) ==
    /\ dom[t].status = "absent"
    /\ dom' = [dom EXCEPT ![t] =
                  [AbsentTile EXCEPT !.status = "attached", !.tag = tag,
                      !.title = IF rendered THEN TitlePool[t] ELSE Null,
                      !.channel = IF rendered THEN ChannelPool[t] ELSE Null]]
    /\ sharedObserver(InsertedNode(tag, rendered, wrapper))
    /\ clock' = IF Observed(InsertedNode(tag, rendered, wrapper))
                THEN startTimer(clock, "observer") ELSE clock
    /\ urlObserver(TRUE, processedVideos, batchCount, NoEv)
    /\ UNCHANGED <<storage, excludedTopics, videoAction, isScanning, scanTimeout,
                   debounceTimers, pendingLoads, cycles, href, mapCall, mapOut, serviceVars>>

\* The host page fills in the title and channel of a tile it inserted empty.
\* No added node matches the shared observer's selectors.
HostRender(t) ==
    /\ dom[t].status = "attached"
    /\ dom[t].title = Null
    /\ dom' = [dom EXCEPT ![t].title = TitlePool[t], ![t].channel = ChannelPool[t]]
    /\ sharedObserver(AddedNode("yt-formatted-string", {}))
    /\ urlObserver(TRUE, processedVideos, batchCount, NoEv)
    /\ UNCHANGED <<storage, excludedTopics, videoAction, isScanning, scanTimeout,
                   debounceTimers, pendingLoads, cycles, href, mapCall, mapOut,
                   gatewayVars>>

\* The host page detaches tile t from its parent.
HostRemove(t) ==
    /\ dom[t].status = "attached"
    /\ dom' = [dom EXCEPT ![t].status = "detached"]
    /\ urlObserver(TRUE, processedVideos, batchCount, NoEv)
    /\ UNCHANGED <<storage, excludedTopics, videoAction, isScanning, scanTimeout,
                   debounceTimers, observerTimeout, pendingLoads, cycles, href,
                   mapCall, mapOut, gatewayVars>>

\* Whether a suspended scan cycle still holds a reference to tile t.
Referenced(t) == \E k \in Indices(cycles) : t \in SeqRange(cycles[k].batch)

\* A detached node that no suspended cycle refers to is unreachable: it is
\* collected and leaves the WeakSet; the host page may create another node.
Reclaim(t) ==
    /\ dom[t].status = "detached"
    /\ ~Referenced(t)
    /\ dom' = [dom EXCEPT ![t] = AbsentTile]
    /\ processedVideos' = processedVideos \ {t}
    /\ batchCount' = [batchCount EXCEPT ![t] = 0]
    /\ ev' = NoEv
    /\ UNCHANGED <<storage, excludedTopics, videoAction, isScanning, scanTimeout,
                   debounceTimers, observerTimeout, urlTimers, pendingLoads,
                   cycles, href, currentUrl, mapCall, mapOut, gatewayVars>>

\* Single-page navigation: the URL changes, the document does not (yet).
\* The page may navigate again before any mutation lets the URL observer
\* see the previous change.  (urlTimers is capped by the bound.)
HostNavigate(url) ==
    /\ url # href
    /\ urlTimers < MaxUrlTimers
    /\ href' = url
    /\ ev' = NoEv
    /\ UNCHANGED <<storage, excludedTopics, videoAction, isScanning, scanTimeout,
                   debounceTimers, observerTimeout, urlTimers, pendingLoads,
                   processedVideos, cycles, dom, currentUrl,
                   batchCount, mapCall, mapOut, gatewayVars>>

(***************************************************************************)
(* The classification round trip of a suspended scan cycle.                *)
(***************************************************************************)
RemoveAt(seq, k) == SubSeq(seq, 1, k - 1) \o SubSeq(seq, k + 1, Len(seq))

\* Variant: no finally block, the flag is released by the early return only.
flagAtExitNoFinally(threw) == ~threw

\* isScanning when scanForVideos() returns: released before the early return
\* of the classification catch block, and in the finally block.
flagAtExit(threw) == FALSE

\* The backend answers the request of cycle k with resp, and scanForVideos()
\* runs from the resolution of its classification await to its end: apply
\* the decisions, mark the batch processed, release the flag. The URL
\* observer runs afterwards if an indicator was added or removed under an
\* attached tile, and the shared observer sees an added indicator element.
ScanResume(k, resp) ==
    /\ k \in Indices(cycles)
    /\ resp \in BackendResponses(cycles[k].request)
    /\ LET c == cycles[k]
           outcome == batchClassifyVideoContexts(c.contexts, BatchTopics(c), resp)
           hideDecisions == outcome.value
           n == IF outcome.threw THEN Len(c.batch)
                ELSE appliedCount(c.batch, hideDecisions, videoAction)
           applied == [t \in Tiles |->
                         IF /\ t \in SeqRange(c.batch)
                            /\ ~outcome.threw
                            /\ PositionOf(c.batch, t) <= n
                         THEN applyDecision(dom[t],
                                  hideDecisions[PositionOf(c.batch, t)], videoAction)
                         ELSE dom[t]]
           mutated == \E t \in Tiles : /\ dom[t].status = "attached"
                                       /\ applied[t].indicators # dom[t].indicators
           added == \E t \in Tiles : /\ dom[t].status = "attached"
                                     /\ applied[t].indicators > dom[t].indicators
       IN  /\ dom' = applied
           /\ IF added THEN sharedObserver(AddedNode("div", {}))
              ELSE observerTimeout' = observerTimeout
           /\ urlObserver(mutated, markProcessed(processedVideos, SubSeq(c.batch, 1, n)),
                  batchCount,
                  [op |-> "done", batch |-> c.batch,
                   decisions |-> hideDecisions, topics |-> c.topics,
                   request |-> c.request, resp |-> resp,
                   cleared |-> FALSE])
    /\ cycles' = RemoveAt(cycles, k)
    /\ isScanning' = flagAtExit(batchClassifyVideoContexts(cycles[k].contexts,
                                    BatchTopics(cycles[k]), resp).threw)
    /\ UNCHANGED <<storage, excludedTopics, videoAction, scanTimeout,
                   debounceTimers, pendingLoads, href,
                   mapCall, mapOut, gatewayVars>>

(***************************************************************************)
(* Shorts sections (youtubeShortsContent.js).                              *)
(***************************************************************************)
MaxShortsLoads == 1    \* loadShortsSettings() calls of the change listener in flight

\* Variant: removes the sections whatever the setting is.
removeShortsSectionsAlways(enabled, sections) ==
    [x \in Sections |-> IF sections[x] = "attached" THEN "removed" ELSE sections[x]]

\* removeShortsSectionsFromDOM(): returns at once when the setting is off,
\* else detaches every element that matches one of the two selectors.
removeShortsSectionsFromDOM(enabled, sections) ==
    IF ~enabled
    THEN sections
    ELSE [x \in Sections |->
            IF sections[x] = "attached" THEN "removed" ELSE sections[x]]

\* loadShortsSettings(): removeShortsSection after the call.  When the read
\* resolves (ok) it is the stored value as a boolean, true when unset; when
\* the read rejects the error is logged and the variable stays as it is.
loadShortsSettings(ok, stored, current) ==
    IF ~ok THEN current
    ELSE IF stored = "undefined" THEN TRUE ELSE stored = "true"

\* A call of removeShortsSectionsFromDOM() with the setting as it is after
\* the step; callParity alternates at every call.
ShortsCall(enabled, state) ==
    [state EXCEPT !.removeShortsSection = enabled,
                  !.sections = removeShortsSectionsFromDOM(enabled, state.sections),
                  !.callParity = 1 - @]

ShortsStep(next) ==
    /\ shorts' = next
    /\ UNCHANGED <<pipelineVars, popup, mapCall, mapOut, gw, availability, sw,
                   sessions, trace>>

\* initialize() of content.js resumes after its
\* `await initializeYouTubeShortsContent()`: it creates the URL observer,
\* which remembers the URL of that moment.
initialize == currentUrl' = href

\* initializeYouTubeShortsContent() resumes after await loadShortsSettings():
\* the change listener is set up, the sections are removed, the 1000 ms
\* timer is started and the mutation observer observes document.body; its
\* caller initialize() resumes then.
ShortsInit(ok) ==
    /\ shorts.pc = "loading"
    /\ shorts' = ShortsCall(loadShortsSettings(ok, shorts.stored,
                                               shorts.removeShortsSection),
                            [shorts EXCEPT !.pc = "ready", !.retryTimer = 1])
    /\ initialize
    /\ ev' = NoEv
    /\ UNCHANGED <<storage, excludedTopics, videoAction, isScanning, scanTimeout,
                   debounceTimers, observerTimeout, urlTimers, pendingLoads,
                   processedVideos, cycles, dom, href, batchCount, clock,
                   popup, mapCall, mapOut, gw, availability, sw, sessions, trace>>

\* The 1000 ms timer of the initialisation expires.
ShortsRetry ==
    /\ shorts.retryTimer = 1
    /\ ShortsStep(ShortsCall(shorts.removeShortsSection,
                             [shorts EXCEPT !.retryTimer = 0]))

\* The host page inserts a Shorts section; once the observer observes, its
\* callback finds a matching added node and restarts its debounce timer.
SectionInsert(x) ==
    /\ shorts.sections[x] = "absent"
    /\ ShortsStep([shorts EXCEPT
           !.sections[x] = "attached",
           !.observerTimeout = IF shorts.pc = "ready" THEN 1 ELSE @])

\* The observer's debounce timer expires and calls debouncedRemoval(), which
\* clears removalTimeout and sets it again.
ShortsObserverExpire ==
    /\ shorts.observerTimeout = 1
    /\ ShortsStep([shorts EXCEPT !.observerTimeout = 0, !.removalTimeout = 1])

\* removalTimeout expires.
ShortsRemovalExpire ==
    /\ shorts.removalTimeout = 1
    /\ ShortsStep(ShortsCall(shorts.removeShortsSection,
                             [shorts EXCEPT !.removalTimeout = 0]))

\* The popup stores another value of removeShortsSection; the change
\* listener, once set up, starts loadShortsSettings().
ShortsToggle(value) ==
    /\ value # shorts.stored
    /\ shorts.pc = "ready" => shorts.loads < MaxShortsLoads
    /\ ShortsStep([shorts EXCEPT
           !.stored = value,
           !.loads = IF shorts.pc = "ready" THEN @ + 1 ELSE @])

\* loadShortsSettings() of the change listener settles, and its then()
\* callback removes the sections.
ShortsLoaded(ok) ==
    /\ shorts.loads > 0
    /\ ShortsStep(ShortsCall(loadShortsSettings(ok, shorts.stored,
                                                shorts.removeShortsSection),
                             [shorts EXCEPT !.loads = @ - 1]))

NextShorts ==
    \/ \E ok \in BOOLEAN : ShortsInit(ok)
    \/ ShortsRetry
    \/ \E x \in Sections : SectionInsert(x)
    \/ ShortsObserverExpire
    \/ ShortsRemovalExpire
    \/ \E value \in {"true", "false"} : ShortsToggle(value)
    \/ \E ok \in BOOLEAN : ShortsLoaded(ok)

\* The event loop runs every task that is due: the resumption after an
\* await and the expiry of a timer that is not cleared happen eventually.
\* The page creates finitely many sections, so the debounce timers are
\* restarted finitely often.
SpecShorts ==
    /\ Init
    /\ [][NextShorts]_vars
    /\ WF_vars(\E ok \in BOOLEAN : ShortsInit(ok))
    /\ WF_vars(ShortsRetry)
    /\ WF_vars(ShortsObserverExpire)
    /\ WF_vars(ShortsRemovalExpire)
    /\ WF_vars(\E ok \in BOOLEAN : ShortsLoaded(ok))

(***************************************************************************)
(* The pipeline.                                                           *)
(***************************************************************************)
VideoActions == {"hide", "delete"}

\* The steps of the pipeline on one page: tiles of the home feed come and
\* go, the user stores topic lists out of lists, timers fire, cycles run.
CoreStep(tiles, lists) ==
    \/ \E topics \in lists, action \in VideoActions \cup {storage.videoAction} :
          UserChange(topics, action)
    \/ \E ok \in BOOLEAN : SettingsLoaded(ok)
    \/ IntervalTick
    \/ ObserverTimeoutFire
    \/ ScanTimeoutFire
    \/ \E t \in tiles, wrapper \in Wrappers :
          HostInsert(t, "ytd-rich-item-renderer", TRUE, wrapper)
    \/ \E k \in Indices(cycles) : \E resp \in BackendResponses(cycles[k].request) :
          ScanResume(k, resp)

\* The host page detaches tiles; unreachable nodes are collected.
RemovalStep(tiles) ==
    \/ \E t \in tiles : HostRemove(t)
    \/ \E t \in tiles : Reclaim(t)

\* Navigation inside the single-page application, which the URL observer
\* follows once the initialisation of content.js has created it.
NavStep ==
    \/ \E ok \in BOOLEAN : ShortsInit(ok)
    \/ \E url \in Urls : HostNavigate(url)
    \/ UrlTimerFire

\* Tiles inserted before the host page has rendered their texts.
RenderStep(tiles) ==
    \/ \E t \in tiles, wrapper \in Wrappers :
          HostInsert(t, "ytd-rich-item-renderer", FALSE, wrapper)
    \/ \E t \in tiles : HostRender(t)

\* The topic lists with at most one topic.
BasicLists == {<<>>, <<TopicPool[1]>>}

OneTile == {1}

\* Tiles that stay on the home feed, settings changes, no navigation.
Next == CoreStep(Tiles, BasicLists)

Spec == Init /\ [][Next]_vars

\* One tile that can be detached, every topic list, no navigation.
NextTopics == CoreStep(OneTile, TopicLists) \/ RemovalStep(OneTile)

SpecTopics == Init /\ [][NextTopics]_vars

\* initializeHideUnwantedContent() resumes after its last await,
\* `await initializeClassificationApi()`: it installs the storage listener,
\* runs the initial scan, starts the interval and the shared mutation
\* observer and returns; initialize() goes on into
\* initializeYouTubeShortsContent(), which suspends at its storage read.
initializeHideUnwantedContent ==
    /\ shorts.pc = "hideUnwanted"
    /\ shorts' = [shorts EXCEPT !.pc = "loading"]
    /\ scanForVideos
    /\ UNCHANGED <<storage, excludedTopics, videoAction, scanTimeout,
                   debounceTimers, observerTimeout, urlTimers, pendingLoads,
                   processedVideos, dom, href, currentUrl, clock, popup,
                   mapCall, mapOut, gw, availability, sw, sessions, trace>>

\* The content script suspended at the last await of
\* initializeHideUnwantedContent(): loadSettings() has read what the popup
\* stored earlier; no listener, timer or observer of the content script
\* exists, while the host page and the user go on.
InitNav ==
    /\ \E topics \in BasicLists :
          /\ storage = [hasTopics |-> topics # <<>>, topics |-> topics,
                        videoAction |-> Null]
          /\ excludedTopics = loadedTopics(storage)
    /\ videoAction = loadedVideoAction(storage)
    /\ isScanning = FALSE
    /\ scanTimeout = "null"
    /\ debounceTimers = 0
    /\ observerTimeout = 0
    /\ urlTimers = 0
    /\ pendingLoads = 0
    /\ processedVideos = {}
    /\ cycles = <<>>
    /\ dom = [t \in Tiles |-> AbsentTile]
    /\ href = HomeUrl
    /\ currentUrl = NoUrl
    /\ batchCount = ZeroCount
    /\ ev = NoEv
    /\ popup = openPopup
    /\ shorts = [ShortsStart EXCEPT !.pc = "hideUnwanted"]
    /\ clock = NoClock
    /\ mapCall = NoCall
    /\ mapOut = NoOut
    /\ GatewayIdle

\* One tile that can be detached, settings changes and navigation: every
\* trigger of a scan cycle, the initial scan included.
NextNav ==
    \/ initializeHideUnwantedContent
    \/ CoreStep(OneTile, BasicLists)
    \/ RemovalStep(OneTile)
    \/ NavStep

SpecNav == InitNav /\ [][NextNav]_vars

\* The one topic list the user stores while the tiles change.
FixedLists == {<<TopicPool[1]>>}

\* Several tiles that are inserted with or without their texts, rendered
\* later and detached, while the user stores a topic and changes the action.
NextTiles == CoreStep(Tiles, FixedLists) \/ RemovalStep(Tiles) \/ RenderStep(Tiles)

SpecTiles == Init /\ [][NextTiles]_vars

\* The element types of the tiles: the selectors of the three page modes.
TileTags ==
    {"ytd-rich-item-renderer", "ytd-video-renderer", "ytd-compact-video-renderer",
     "ytm-shorts-lockup-view-model-v2", "yt-lockup-view-model"}

\* Tiles of every type on every page mode: the user stores one topic, the
\* host page inserts tiles and navigates, timers fire, cycles run.
NextModes ==
    \/ UserChange(<<TopicPool[1]>>, storage.videoAction)
    \/ SettingsLoaded(TRUE)
    \/ IntervalTick
    \/ ObserverTimeoutFire
    \/ ScanTimeoutFire
    \/ \E t \in Tiles, tag \in TileTags, rendered \in BOOLEAN, wrapper \in Wrappers :
          HostInsert(t, tag, rendered, wrapper)
    \/ \E ok \in BOOLEAN : ShortsInit(ok)
    \/ \E url \in Urls : HostNavigate(url)
    \/ UrlTimerFire
    \/ \E k \in Indices(cycles) : \E resp \in BackendResponses(cycles[k].request) :
          ScanResume(k, resp)

SpecModes == Init /\ [][NextModes]_vars

\* The pipeline on the home feed with its timers on the clock: one tile,
\* inserted with or without its texts, and a user who changes the display
\* action.
InitProgress ==
    /\ InitContentScript
    /\ clock = [NoClock EXCEPT !.timed = TRUE]
    /\ mapCall = NoCall
    /\ mapOut = NoOut
    /\ GatewayIdle

NextProgress ==
    \/ \E action \in VideoActions \cup {storage.videoAction} :
          UserChange(<<TopicPool[1]>>, action)
    \/ \E ok \in BOOLEAN : SettingsLoaded(ok)
    \/ Elapse
    \/ IntervalTick
    \/ ObserverTimeoutFire
    \/ ScanTimeoutFire
    \/ \E t \in OneTile, rendered \in BOOLEAN, wrapper \in Wrappers :
          HostInsert(t, "ytd-rich-item-renderer", rendered, wrapper)
    \/ \E t \in OneTile : HostRender(t)
    \/ \E k \in Indices(cycles) : \E resp \in BackendResponses(cycles[k].request) :
          ScanResume(k, resp)

\* Time passes, timers that are due fire, storage reads and classifier calls
\* settle. Nothing obliges the host page or the user to act.
FairProgress ==
    /\ WF_vars(Elapse)
    /\ WF_vars(IntervalTick)
    /\ WF_vars(ObserverTimeoutFire)
    /\ WF_vars(ScanTimeoutFire)
    /\ WF_vars(\E ok \in BOOLEAN : SettingsLoaded(ok))
    /\ WF_vars(\E k \in Indices(cycles) :
                  \E resp \in BackendResponses(cycles[k].request) : ScanResume(k, resp))

SpecProgress == InitProgress /\ [][NextProgress]_vars /\ FairProgress

(***************************************************************************)
(* Direct calls of the batch helpers of src/classificationUtils.js, on     *)
(* every bounded input: texts, topics and the backend's answer, which may  *)
(* carry ids that are out of range, malformed or repeated.                 *)
(***************************************************************************)
ContextPool == [i \in 1..4 |-> TitlePool[i] \o " - " \o ChannelPool[i]]

TextId(i) == generateId("t", i)

TopicId(j) == generateId("p", j)

\* Result entries with well-formed ids, in range or one past the range.
WellFormedEntries ==
    {[text_id |-> TextId(i), topic_ids |-> ids] :
        i \in 0..MaxTexts,
        ids \in {<<>>} \cup {<<TopicId(j)>> : j \in 0..MaxMapTopics}}

\* Result entries a misbehaving backend may send.
OddEntries ==
    {[text_id |-> <<"0">>, topic_ids |-> <<TopicId(0)>>],
     [text_id |-> <<"t", "t", "0">>, topic_ids |-> <<TopicId(0)>>],
     [text_id |-> <<"t", "-", "1">>, topic_ids |-> <<TopicId(0)>>],
     [text_id |-> <<"0", "x", "1">>, topic_ids |-> <<TopicId(0)>>],
     [text_id |-> <<"\t", "t", "1">>, topic_ids |-> <<<<"0", "X", "1">>>>],
     [text_id |-> TextId(0), topic_ids |-> <<TextId(0)>>],
     [text_id |-> TextId(0), topic_ids |-> <<TopicId(MaxMapTopics), TopicId(0)>>]}

MapEntries == WellFormedEntries \cup OddEntries

SeqsUpTo(S, n) == UNION {[1..m -> S] : m \in 0..n}

MapResponses ==
    {[kind |-> k, results |-> <<>>] : k \in {"neterror", "httperror", "noresults"}}
    \cup {[kind |-> "ok", results |-> r] : r \in SeqsUpTo(MapEntries, MaxResults)}

MapCalls ==
    {[texts |-> SubSeq(ContextPool, 1, n), topics |-> SubSeq(TopicPool, 1, m),
      resp |-> r] :
        n \in 0..MaxTexts, m \in 0..MaxMapTopics, r \in MapResponses}

InitMap ==
    /\ InitPipeline
    /\ mapCall \in MapCalls
    /\ mapOut = NoOut
    /\ GatewayIdle

\* classifyTextsBatch and batchClassifyVideoContexts are called with the
\* arguments of mapCall, and the backend answers mapCall.resp.
DirectCall ==
    /\ ~mapOut.done
    /\ LET r == classifyTextsBatch(mapCall.texts, mapCall.topics, mapCall.resp)
           d == batchClassifyVideoContexts(mapCall.texts, mapCall.topics, mapCall.resp)
       IN  mapOut' = [done |-> TRUE, threw |-> r.threw, fetched |-> r.fetched,
                      matched |-> r.value, decisions |-> d.value]
    /\ UNCHANGED <<mapCall, pipelineVars, gatewayVars>>

NextMap == DirectCall

SpecMap == InitMap /\ [][NextMap]_vars

(***************************************************************************)
(* Direct calls of the classifier entry points of the content script, with *)
(* arguments of any type and every kind of answer of the backend.          *)
(***************************************************************************)
\* Values a caller may pass for texts or topics.
ArgValues(pool, n) ==
    {JsOther(k) : k \in {"undefined", "null", "string", "object"}}
    \cup {JsArray(SubSeq(pool, 1, m)) : m \in 0..n}

DetailEntries ==
    {[hasMsg |-> TRUE, msg |-> "field required"],
     [hasMsg |-> TRUE, msg |-> "value is not a valid list"],
     [hasMsg |-> FALSE, msg |-> ""]}

PlainResponse(kind) ==
    [kind |-> kind, status |-> 200, errBody |-> "", detailText |-> "",
     detail |-> <<>>, results |-> <<>>]

ErrorStatuses == {422, 500}

\* The answers of the HTTP backend to a request for n texts and m topics.
HttpResponses(n, m) ==
    {PlainResponse("neterror"), PlainResponse("noresults")}
    \cup {[PlainResponse("badbody") EXCEPT !.errBody = b] : b \in {"notjson", "null"}}
    \cup {[PlainResponse("httperror") EXCEPT !.status = st, !.errBody = b] :
             st \in ErrorStatuses, b \in {"notjson", "null", "nodetail"}}
    \cup {[PlainResponse("httperror") EXCEPT !.status = st, !.errBody = "nodetail",
                                             !.detailText = "Internal Server Error"] :
             st \in ErrorStatuses}
    \cup {[PlainResponse("httperror") EXCEPT !.status = st, !.errBody = "detail",
                                             !.detail = d] :
             st \in ErrorStatuses, d \in SeqsUpTo(DetailEntries, MaxResults)}
    \cup {[PlainResponse("ok") EXCEPT !.results =
              [i \in 1..n |-> [text_id |-> TextId(i - 1), topic_ids |-> f[i]]]] :
             f \in [1..n -> TopicIdChoices(m)]}

\* The replies of the service worker to a CLASSIFY message for n texts.
Replies(n, m) ==
    {[kind |-> k, success |-> FALSE, error |-> <<>>, results |-> <<>>] :
        k \in {"lastError", "none", "response"}}
    \cup {[kind |-> "response", success |-> FALSE,
           error |-> <<"Built-in AI model is not ready on this device">>,
           results |-> <<>>]}
    \cup {[kind |-> "response", success |-> TRUE, error |-> <<>>,
           results |-> [i \in 1..n |-> [text_id |-> TextId(i - 1), topic_ids |-> f[i]]]] :
             f \in [1..n -> TopicIdChoices(m)]}

NoReply == [kind |-> "none", success |-> FALSE, error |-> <<>>, results |-> <<>>]

Entries ==
    {"classifyTextsBatch", "ServerTextClassifier.classify",
     "BuiltInAITextClassifier.classify", "contentScript.classifyTextsBatch"}

\* src/classificationUtils.js classifyTextsBatch, called with any values.
classifyTextsBatchCall(texts, topics, resp) ==
    IF IsEmptyOrNotArray(texts) THEN InvalidTexts
    ELSE IF IsEmptyOrNotArray(topics) THEN InvalidTopics
    ELSE LET r == classifyTextsBatch(texts.items, topics.items, resp)
         IN  [threw |-> r.threw,
              message |-> IF r.threw THEN classificationError(resp) ELSE <<>>,
              value |-> r.value,
              fetches |-> IF r.fetched THEN 1 ELSE 0,
              sent |-> 0]

\* The pipeline's decisions for the call: batchClassifyVideoContexts of the
\* module the entry point belongs to.
decisionsOf(entry, classifier, texts, topics, env) ==
    IF entry = "classifyTextsBatch"
    THEN IF IsEmptyOrNotArray(texts) THEN <<>>
         ELSE IF IsEmptyOrNotArray(topics) THEN [i \in Indices(texts.items) |-> FALSE]
         ELSE batchClassifyVideoContexts(texts.items, topics.items, env.resp).value
    ELSE contentScript_batchClassifyVideoContexts(classifier, texts, topics, env)

\* isBuiltInTextClassifierAvailable(): the answer of the service worker to
\* CHECK_AVAILABILITY, {success: true, available: getAIStatus()}.
isBuiltInTextClassifierAvailable(state) ==
    state # "absent" /\ state = "available"

\* getTextClassifier(): the availability check is commented out; the
\* function returns getServerTextClassifier() in every case.
getTextClassifier(builtInAIAvailable) == "server"

\* One entry point is called; texts and topics are strings for the batch
\* helpers and {id, text} / {id, topic} objects for the classifiers.
GatewayCall(entry, classifier, texts, topics, resp, reply) ==
    /\ ~gw.done
    /\ LET env == [resp |-> resp, reply |-> reply]
           withIds == entry \in {"ServerTextClassifier.classify",
                                 "BuiltInAITextClassifier.classify"}
           textsArg == IF withIds /\ isArray(texts)
                       THEN JsArray(textsWithIds(texts.items)) ELSE texts
           topicsArg == IF withIds /\ isArray(topics)
                        THEN JsArray(topicsWithIds(topics.items)) ELSE topics
           out == IF entry = "classifyTextsBatch"
                  THEN classifyTextsBatchCall(texts, topics, resp)
                  ELSE IF entry = "ServerTextClassifier.classify"
                  THEN ServerTextClassifier_classify(textsArg, topicsArg, resp)
                  ELSE IF entry = "BuiltInAITextClassifier.classify"
                  THEN BuiltInAITextClassifier_classify(textsArg, topicsArg, reply)
                  ELSE contentScript_classifyTextsBatch(classifier, texts, topics, env)
       IN  gw' = [done |-> TRUE, entry |-> entry, classifier |-> classifier,
                  selected |-> getTextClassifier(
                                   isBuiltInTextClassifierAvailable(availability)),
                  texts |-> textsArg, topics |-> topicsArg,
                  resp |-> resp, reply |-> reply, out |-> out,
                  decisions |-> decisionsOf(entry, classifier, texts, topics, env)]
    /\ UNCHANGED <<pipelineVars, popup, shorts, mapCall, mapOut, trace, availability, sw, sessions>>

ArgLen(v) == IF isArray(v) THEN Len(v.items) ELSE 0

\* The classifier behind an entry point, and the answers it can get.
NextGateway ==
    /\ ~gw.done
    /\ \E entry \in Entries,
          texts \in ArgValues(ContextPool, MaxTexts),
          topics \in ArgValues(TopicPool, MaxMapTopics) :
          \/ /\ entry \in {"classifyTextsBatch", "ServerTextClassifier.classify"}
             /\ \E resp \in HttpResponses(ArgLen(texts), ArgLen(topics)) :
                   GatewayCall(entry, "server", texts, topics, resp, NoReply)
          \/ /\ entry = "BuiltInAITextClassifier.classify"
             /\ \E reply \in Replies(ArgLen(texts), ArgLen(topics)) :
                   GatewayCall(entry, "builtin", texts, topics,
                               PlainResponse("neterror"), reply)
          \/ /\ entry = "contentScript.classifyTextsBatch"
             /\ \/ \E resp \in HttpResponses(ArgLen(texts), ArgLen(topics)) :
                      GatewayCall(entry, "server", texts, topics, resp, NoReply)
                \/ \E reply \in Replies(ArgLen(texts), ArgLen(topics)) :
                      GatewayCall(entry, "builtin", texts, topics,
                                  PlainResponse("neterror"), reply)
                \/ GatewayCall(entry, "none", texts, topics,
                               PlainResponse("neterror"), NoReply)

(***************************************************************************)
(* serviceWorker/textClassifierBuiltInAI.js and service-worker.js: the     *)
(* on-device classifier.  A session is [state, destroyed, prompts]: state  *)
(* is "pending" while LanguageModel.create() has not settled, "live" once  *)
(* it resolved, "failed" once it rejected; sessions are numbered in the     *)
(* order of the create() calls; prompts lists                               *)
(* the positions of the texts prompted in it.  sw is the call in progress: *)
(* fn is the function called, handler tells whether it is called from the  *)
(* CLASSIFY message handler, out is its outcome [threw, message, value];    *)
(* log records, per text, how its model invocation ended.                  *)
(***************************************************************************)
MAX_PARALLEL == 8

AvailabilityStates == {"unavailable", "downloadable", "downloading", "available"}

\* getAIStatus(): true only when the API exists and reports 'available'.
getAIStatus(state) == state # "absent" /\ state = "available"

\* What session.prompt resolves to for one text, or its rejection.
Answers(m) ==
    {[kind |-> k, topic_ids |-> <<>>] : k \in {"reject", "notjson", "nofield"}}
    \cup {[kind |-> "json", topic_ids |-> ids] : ids \in TopicIdChoices(m)}

NewSession == [state |-> "live", destroyed |-> FALSE, prompts |-> <<>>]

\* LanguageModel.create() was called and has not settled.
PendingSession == [NewSession EXCEPT !.state = "pending"]

\* session.destroy()
destroy(S, id) == [S EXCEPT ![id].destroyed = TRUE]

\* session.prompt(...) for the text at position i.
prompt(S, id, i) == [S EXCEPT ![id].prompts = Append(@, i)]

\* The single-text result of an answer: JSON.parse, then topic_ids || [].
\* A rejected prompt and an unparsable answer throw.
AnswerThrows(answer) == answer.kind \in {"createfail", "reject", "notjson"}

\* LanguageModel.create() rejected for the invocation of one text.
CreateFailed == [kind |-> "createfail", topic_ids |-> <<>>]

PromptRejected == [kind |-> "reject", topic_ids |-> <<>>]

\* The invocation of a text has not ended.
NoAnswer == [kind |-> "none", topic_ids |-> <<>>]

\* Variant: no catch block around the invocation of one text.
invocationRethrows(failed) == failed

\* Whether a failed invocation of one text makes its caller fail: the catch
\* blocks of classifySingleText (lines 173-180) and of the loop of classify
\* (lines 282-289) return the empty entry instead.
invocationRejects(failed) == FALSE

singleResult(text, answer) ==
    [text_id |-> text.id,
     topic_ids |-> IF AnswerThrows(answer) THEN <<>> ELSE answer.topic_ids]

SwThrow(message) ==
    [sw EXCEPT !.pc = "done",
               !.out = [threw |-> TRUE, message |-> message, value |-> <<>>]]

SwReturn(value) ==
    [sw EXCEPT !.pc = "done",
               !.out = [threw |-> FALSE, message |-> <<>>, value |-> value]]

\* A call arrives: through the message handler (service-worker.js 52-56,
\* which reads texts.length and topics.length first) or directly; then the
\* function validates its arguments.
received(fn, handler, texts, topics) ==
    LET start == [IdleSw EXCEPT !.pc = "availability", !.fn = fn,
                                !.handler = handler, !.texts = texts,
                                !.topics = topics]
        fail(message) ==
            [start EXCEPT !.pc = "done",
                          !.out = [threw |-> TRUE, message |-> message,
                                   value |-> <<>>]]
    IN  IF handler /\ (texts.kind \in {"undefined", "null"}
                       \/ topics.kind \in {"undefined", "null"})
        THEN fail(TypeErrorMessage)
        ELSE IF IsEmptyOrNotArray(texts) THEN fail(InvalidTexts.message)
        ELSE IF IsEmptyOrNotArray(topics) THEN fail(InvalidTopics.message)
        ELSE start

SwReceive(fn, handler, texts, topics) ==
    /\ sw.pc = "idle"
    /\ handler => fn = "classify"
    /\ sw' = received(fn, handler, texts, topics)
    /\ UNCHANGED <<pipelineVars, popup, shorts, mapCall, mapOut, trace, gw, availability, sessions>>

\* Variant: the batch is the whole rest of the texts.
BatchAtRest(i, n) == {k \in 1..n : k >= i}

\* The positions of the texts of the parallel batch that starts at i.
BatchAt(i, n) == {k \in 1..n : k >= i /\ k < i + MAX_PARALLEL}

NoResult == [text_id |-> <<>>, topic_ids |-> <<>>]

\* batch.map(text => classifySingleText(text, topics)): every task of the
\* batch runs to its `await LanguageModel.create()`, in the order of the
\* texts; base is the number of create() calls made before.
NewTasks(i, n, base) ==
    [k \in 1..n |-> [pc |-> IF k \in BatchAt(i, n) THEN "create" ELSE "wait",
                     session |-> IF k \in BatchAt(i, n) THEN base + (k - i) + 1 ELSE 0,
                     result |-> NoResult]]

\* The create() calls of the batch that starts at i.
NewCalls(i, n) == [k \in 1..Cardinality(BatchAt(i, n)) |-> PendingSession]

\* Variant: every state but 'unavailable' passes the test.
modelReadyUnlessUnavailable(state) == state # "unavailable"

\* The test `availability !== 'available'` of classify, classifyParallel and
\* classifyBatch.
modelReady(state) == state = "available"

\* `await LanguageModel.availability()` and the test of its answer; when it
\* passes, the function runs on to its first LanguageModel.create() call
\* (classifyParallel: to the create() calls of its first batch).
SwAvailability ==
    /\ sw.pc = "availability"
    /\ sw' = IF availability = "absent"
             THEN SwThrow(<<"LanguageModel is not defined">>)
             ELSE IF ~modelReady(availability)
             THEN [SwThrow(<<"Built-in AI model is not ready on this device">>)
                      EXCEPT !.checked = availability]
             ELSE IF sw.fn = "classifyParallel"
             THEN [sw EXCEPT !.pc = "parallel", !.checked = availability,
                             !.tasks = NewTasks(1, Len(sw.texts.items), Len(sessions)),
                             !.log = [k \in Indices(sw.texts.items) |-> NoAnswer]]
             ELSE [sw EXCEPT !.pc = "create", !.checked = availability,
                             !.log = [k \in Indices(sw.texts.items) |-> NoAnswer]]
    /\ sessions' = IF ~(modelReady(availability) /\ availability # "absent")
                    THEN sessions
                    ELSE IF sw.fn = "classifyParallel"
                    THEN sessions \o NewCalls(1, Len(sw.texts.items))
                    ELSE Append(sessions, PendingSession)
    /\ UNCHANGED <<pipelineVars, popup, shorts, mapCall, mapOut, trace, gw, availability>>

\* The create() call that has not settled: the last one made.
AwaitedSession == Len(sessions)

\* classify: the catch block of the loop (or the push of the result) for the
\* text at position w.i, whose invocation ended with outcome.
pushed(w, outcome) ==
    IF invocationRejects(AnswerThrows(outcome))
    THEN [w EXCEPT !.pc = "done", !.log[w.i] = outcome,
                   !.out = [threw |-> TRUE,
                            message |-> <<"The request was rejected">>,
                            value |-> <<>>]]
    ELSE [w EXCEPT !.results = Append(@, singleResult(w.texts.items[w.i], outcome)),
                   !.log[w.i] = outcome,
                   !.i = @ + 1]

\* classify: the loop from the head of iteration w.i to its next await
\* (lines 238-261), or past the loop to the return (lines 293-307).
\* quotaHigh is the outcome of the quota test of line 254: the session is
\* destroyed and create() awaited, otherwise the prompt is issued.
enterIteration(w, S, quotaHigh) ==
    IF w.pc = "done" THEN [sw |-> w, sessions |-> S]
    ELSE IF w.i > Len(w.texts.items)
    THEN [sw |-> [w EXCEPT !.pc = "done",
                           !.out = [threw |-> FALSE, message |-> <<>>,
                                    value |-> w.results]],
          sessions |-> destroy(S, w.session)]
    ELSE IF quotaHigh
    THEN [sw |-> [w EXCEPT !.pc = "recreate"],
          sessions |-> Append(destroy(S, w.session), PendingSession)]
    ELSE [sw |-> [w EXCEPT !.pc = "loop"],
          sessions |-> prompt(S, w.session, w.i)]

\* classify / classifyBatch: `await LanguageModel.create()` settles (lines
\* 220 and 347).  classify runs on into its loop, classifyBatch to its
\* prompt (line 385).
SwCreate(ok, quotaHigh) ==
    /\ sw.pc = "create"
    /\ LET id == AwaitedSession
           live == [sessions EXCEPT ![id].state = "live"]
           next == enterIteration([sw EXCEPT !.session = id, !.pc = "loop"],
                                  live, quotaHigh)
       IN  IF ~ok
           THEN /\ sessions' = [sessions EXCEPT ![id].state = "failed"]
                /\ sw' = SwThrow(<<"Unable to create session">>)
           ELSE IF sw.fn = "classify"
           THEN /\ sessions' = next.sessions
                /\ sw' = next.sw
           ELSE /\ ~quotaHigh
                /\ sessions' = prompt(live, id, 0)
                /\ sw' = [sw EXCEPT !.session = id, !.pc = "batch"]
    /\ UNCHANGED <<pipelineVars, popup, shorts, mapCall, mapOut, trace, gw, availability>>

\* classify: `session = await LanguageModel.create()` of the quota branch
\* settles (line 257).  The new session is prompted; a rejection leaves
\* `session` on the destroyed one and is caught by the loop's catch block.
SwRecreate(ok, quotaHigh) ==
    /\ sw.pc = "recreate"
    /\ LET id == AwaitedSession
           failed == enterIteration(pushed(sw, CreateFailed),
                                    [sessions EXCEPT ![id].state = "failed"],
                                    quotaHigh)
       IN  IF ok
           THEN /\ ~quotaHigh
                /\ sessions' = prompt([sessions EXCEPT ![id].state = "live"], id, sw.i)
                /\ sw' = [sw EXCEPT !.session = id, !.pc = "loop"]
           ELSE /\ sessions' = failed.sessions
                /\ sw' = failed.sw
    /\ UNCHANGED <<pipelineVars, popup, shorts, mapCall, mapOut, trace, gw, availability>>

\* classify: `await session.prompt(...)` settles (line 261): the result is
\* parsed and pushed, or the catch block pushes the empty entry, and the
\* loop runs on to its next await or to the return.  A prompt on a destroyed
\* session rejects.
SwLoop(answer, quotaHigh) ==
    /\ sw.pc = "loop"
    /\ sessions[sw.session].destroyed => answer.kind = "reject"
    /\ LET next == enterIteration(pushed(sw, answer), sessions, quotaHigh)
       IN  /\ sessions' = next.sessions
           /\ sw' = next.sw
    /\ UNCHANGED <<pipelineVars, popup, shorts, mapCall, mapOut, trace, gw, availability>>

\* classifySingleText: `await LanguageModel.create()` of the task of text k
\* settles (line 128); the task runs on to its prompt (line 152).  A
\* rejection is caught, and the finally block finds no session.
TaskCreate(k, ok) ==
    /\ sw.pc = "parallel"
    /\ sw.tasks[k].pc = "create"
    /\ IF ok
       THEN /\ sessions' = prompt([sessions EXCEPT ![sw.tasks[k].session].state = "live"],
                                  sw.tasks[k].session, k)
            /\ sw' = [sw EXCEPT !.tasks[k].pc = "prompt"]
       ELSE /\ sessions' = [sessions EXCEPT ![sw.tasks[k].session].state = "failed"]
            /\ sw' = [sw EXCEPT !.tasks[k] =
                         [pc |-> IF invocationRejects(TRUE) THEN "rejected" ELSE "done",
                          session |-> 0,
                          result |-> singleResult(sw.texts.items[k], CreateFailed)],
                               !.log[k] = CreateFailed]
    /\ UNCHANGED <<pipelineVars, popup, shorts, mapCall, mapOut, trace, gw, availability>>

\* classifySingleText: `await session.prompt(...)` of the task of text k
\* settles; its result, and the finally block that destroys the session.
TaskPrompt(k, answer) ==
    /\ sw.pc = "parallel"
    /\ sw.tasks[k].pc = "prompt"
    /\ sessions' = destroy(sessions, sw.tasks[k].session)
    /\ sw' = [sw EXCEPT !.tasks[k] =
                 [pc |-> IF invocationRejects(AnswerThrows(answer))
                         THEN "rejected" ELSE "done",
                  session |-> sw.tasks[k].session,
                  result |-> singleResult(sw.texts.items[k], answer)],
                       !.log[k] = answer]
    /\ UNCHANGED <<pipelineVars, popup, shorts, mapCall, mapOut, trace, gw, availability>>

\* classifyParallel: Promise.all of the batch settles; next batch or return.
SwGather ==
    /\ sw.pc = "parallel"
    /\ LET n == Len(sw.texts.items)
           batch == BatchAt(sw.i, n)
           results == [k \in 1..(Len(sw.results) + Cardinality(batch)) |->
                          IF k <= Len(sw.results) THEN sw.results[k]
                          ELSE sw.tasks[k].result]
           next == sw.i + MAX_PARALLEL
       IN  /\ \A k \in batch : sw.tasks[k].pc \in {"done", "rejected"}
           /\ sw' = IF \E k \in batch : sw.tasks[k].pc = "rejected"
                    THEN SwThrow(<<"The request was rejected">>)
                    ELSE IF next > n THEN SwReturn(results)
                    ELSE [sw EXCEPT !.results = results, !.i = next,
                                    !.tasks = NewTasks(next, n, Len(sessions))]
           /\ sessions' = IF next > n \/ \E k \in batch : sw.tasks[k].pc = "rejected"
                           THEN sessions
                           ELSE sessions \o NewCalls(next, n)
    /\ UNCHANGED <<pipelineVars, popup, shorts, mapCall, mapOut, trace, gw, availability>>

\* classifyBatch: the single prompt for all texts settles (lines 385-416).
\* The session is destroyed only after the answer was parsed.
SwBatch(answer, entries) ==
    /\ sw.pc = "batch"
    /\ IF AnswerThrows(answer)
       THEN /\ sessions' = sessions
            /\ sw' = SwThrow(IF answer.kind = "reject"
                             THEN <<"The request was rejected">>
                             ELSE SyntaxErrorMessage)
       ELSE /\ sessions' = destroy(sessions, sw.session)
            /\ sw' = SwReturn(IF answer.kind = "json" THEN entries
                              ELSE emptyMatches(sw.texts.items))
    /\ UNCHANGED <<pipelineVars, popup, shorts, mapCall, mapOut, trace, gw, availability>>

\* handleTextClassifierMessage: the response sent for an outcome.
handlerReply(out) ==
    IF out.threw
    THEN [kind |-> "response", success |-> FALSE,
          error |-> IF out.message = <<>> THEN <<"Unknown error occurred">>
                    ELSE out.message,
          results |-> <<>>]
    ELSE [kind |-> "response", success |-> TRUE, error |-> <<>>,
          results |-> out.value]

InitClassifier ==
    /\ InitPipeline
    /\ mapCall = NoCall
    /\ mapOut = NoOut
    /\ gw = NoGw
    /\ availability \in AvailabilityStates \cup {"absent"}
    /\ sw = IdleSw
    /\ sessions = <<>>
    /\ trace = NoTrace

WorkerFunctions == {"classify", "classifyParallel", "classifyBatch"}

NextWorker ==
    \/ \E fn \in WorkerFunctions, handler \in BOOLEAN,
          texts \in ArgValues(textsWithIds(ContextPool), MaxTexts),
          topics \in ArgValues(topicsWithIds(TopicPool), MaxMapTopics) :
          SwReceive(fn, handler, texts, topics)
    \/ SwAvailability
    \/ \E ok, quotaHigh \in BOOLEAN : SwCreate(ok, quotaHigh)
    \/ \E ok, quotaHigh \in BOOLEAN : SwRecreate(ok, quotaHigh)
    \/ \E quotaHigh \in BOOLEAN :
          \E answer \in Answers(Len(sw.topics.items)) :
             SwLoop(answer, quotaHigh)
    \/ \E k \in Indices(sw.tasks), ok \in BOOLEAN : TaskCreate(k, ok)
    \/ \E k \in Indices(sw.tasks) : \E answer \in Answers(Len(sw.topics.items)) :
          TaskPrompt(k, answer)
    \/ SwGather
    \/ \E answer \in Answers(1) :
          \E entries \in {r.results : r \in Replies(Len(sw.texts.items),
                                                    Len(sw.topics.items))} :
             SwBatch(answer, entries)

\* Classifier calls: one call of a content-script entry point, or one call
\* of the service worker, in every availability state of the model.
NextClassifier ==
    \/ /\ sw.pc = "idle"
       /\ NextGateway
    \/ /\ ~gw.done
       /\ NextWorker

SpecClassifier == InitClassifier /\ [][NextClassifier]_vars

(***************************************************************************)
(* The message channel between the content script and the service worker.  *)
(* gw is the exchange in progress: caller is the content-script function   *)
(* that sent the message ("raw" for a bare chrome.runtime.sendMessage),    *)
(* returned the value the onMessage listener returned, responses the       *)
(* sendResponse calls of the handler, reply what the sender's callback     *)
(* receives, out the outcome of the caller.                                *)
(***************************************************************************)
NoMessage == [type |-> "none", action |-> "none",
              texts |-> JsOther("undefined"), topics |-> JsOther("undefined")]

IdleChannel ==
    [done |-> FALSE, pc |-> "idle", caller |-> "none", message |-> NoMessage,
     returned |-> "none", responses |-> <<>>, reply |-> NoReply,
     out |-> NoOutcome]

\* The callback of chrome.runtime.sendMessage when no response arrives: the
\* runtime sets lastError.
RuntimeError == [NoReply EXCEPT !.kind = "lastError"]

\* BuiltInAITextClassifier.isAvailable(): false when _sendMessage rejects or
\* the response cannot be read, response.success && response.available
\* otherwise.
isAvailable(reply) ==
    IF sendMessageRejects(reply) \/ reply.kind = "none" THEN FALSE
    ELSE reply.success /\ reply.available

\* Messages sent by other code than the two classifier methods: an unknown
\* action, another feature's type, a CLASSIFY message without texts.
RawMessages ==
    {[NoMessage EXCEPT !.type = t, !.action = a] :
        t \in {"TEXT_CLASSIFIER", "ANOTHER_FEATURE"},
        a \in {"CHECK_AVAILABILITY", "CLASSIFY", "RESET"}}

channelVars == <<pipelineVars, popup, shorts, mapCall, mapOut, trace,
                 availability, sessions>>

\* classifier.classify(texts, topics) up to its await of _sendMessage.
CallClassify(texts, topics) ==
    /\ gw.pc = "idle"
    /\ gw' = IF IsEmptyOrNotArray(texts) \/ IsEmptyOrNotArray(topics)
             THEN [gw EXCEPT !.pc = "done", !.caller = "classify",
                      !.message = [NoMessage EXCEPT !.texts = texts, !.topics = topics],
                      !.out = BuiltInAITextClassifier_classify(texts, topics, NoReply)]
             ELSE [gw EXCEPT !.pc = "sent", !.caller = "classify",
                      !.message = [type |-> "TEXT_CLASSIFIER", action |-> "CLASSIFY",
                                   texts |-> texts, topics |-> topics]]
    /\ UNCHANGED <<channelVars, sw>>

\* classifier.isAvailable() up to its await of _sendMessage.
CallIsAvailable ==
    /\ gw.pc = "idle"
    /\ gw' = [gw EXCEPT !.pc = "sent", !.caller = "isAvailable",
                        !.message = [NoMessage EXCEPT !.type = "TEXT_CLASSIFIER",
                                        !.action = "CHECK_AVAILABILITY"]]
    /\ UNCHANGED <<channelVars, sw>>

\* chrome.runtime.sendMessage(message, callback) by any other sender.
CallRaw(message) ==
    /\ gw.pc = "idle"
    /\ gw' = [gw EXCEPT !.pc = "sent", !.caller = "raw", !.message = message]
    /\ UNCHANGED <<channelVars, sw>>

\* The message reaches no listener: the callback runs with lastError set.
NoReceiver ==
    /\ gw.pc = "sent"
    /\ gw' = [gw EXCEPT !.pc = "replied", !.reply = RuntimeError]
    /\ UNCHANGED <<channelVars, sw>>

UnknownAction(action) ==
    [kind |-> "response", success |-> FALSE,
     error |-> <<"Unknown action: " \o action>>, results |-> <<>>]

\* Variant: no catch block in the handler.
sendResponseNoCatch(out) == IF out.threw THEN <<>> ELSE <<handlerReply(out)>>

\* The sendResponse calls of the CLASSIFY branch and of the catch block of
\* handleTextClassifierMessage for the outcome of classifyWithBuiltInAI.
sendResponse(out) == <<handlerReply(out)>>

\* What the sender's callback receives: the first response, or lastError
\* when the channel closed without one.
replyOf(responses) == IF responses = <<>> THEN RuntimeError ELSE responses[1]

\* The onMessage listener, and handleTextClassifierMessage up to its first
\* await.
OnMessage ==
    /\ gw.pc = "sent"
    /\ sw.pc = "idle"
    /\ LET message == gw.message
       IN  IF message.type # "TEXT_CLASSIFIER"
           THEN /\ gw' = [gw EXCEPT !.pc = "replied", !.returned = "false",
                                    !.reply = replyOf(<<>>)]
                /\ sw' = sw
           ELSE IF message.action = "CHECK_AVAILABILITY"
           THEN /\ gw' = [gw EXCEPT !.pc = "status", !.returned = "true"]
                /\ sw' = sw
           ELSE IF message.action = "CLASSIFY"
           THEN /\ gw' = [gw EXCEPT !.pc = "handling", !.returned = "true"]
                /\ sw' = received("classify", TRUE, message.texts, message.topics)
           ELSE /\ gw' = [gw EXCEPT !.pc = "replied", !.returned = "true",
                                    !.responses = <<UnknownAction(message.action)>>,
                                    !.reply = UnknownAction(message.action)]
                /\ sw' = sw
    /\ UNCHANGED channelVars

\* CHECK_AVAILABILITY: getAIStatus() has settled.
StatusRespond ==
    /\ gw.pc = "status"
    /\ LET response == [kind |-> "response", success |-> TRUE, error |-> <<>>,
                        results |-> <<>>, available |-> getAIStatus(availability)]
       IN  gw' = [gw EXCEPT !.pc = "replied", !.responses = Append(@, response),
                           !.reply = response]
    /\ UNCHANGED <<channelVars, sw>>

\* CLASSIFY: classifyWithBuiltInAI has settled.
ClassifyRespond ==
    /\ gw.pc = "handling"
    /\ sw.pc = "done"
    /\ LET responses == gw.responses \o sendResponse(sw.out)
       IN  gw' = [gw EXCEPT !.pc = "replied", !.responses = responses,
                           !.reply = replyOf(responses)]
    /\ UNCHANGED <<channelVars, sw>>

\* The sender's callback runs, and the caller settles.
ChannelCallback ==
    /\ gw.pc = "replied"
    /\ gw' = [gw EXCEPT !.pc = "done",
                        !.out = IF gw.caller = "classify"
                                THEN BuiltInAITextClassifier_classify(
                                         gw.message.texts, gw.message.topics, gw.reply)
                                ELSE IF gw.caller = "isAvailable"
                                THEN [NoOutcome EXCEPT !.value = isAvailable(gw.reply)]
                                ELSE NoOutcome]
    /\ UNCHANGED <<channelVars, sw>>

InitChannel ==
    /\ InitPipeline
    /\ mapCall = NoCall
    /\ mapOut = NoOut
    /\ gw = IdleChannel
    /\ availability \in AvailabilityStates \cup {"absent"}
    /\ sw = IdleSw
    /\ sessions = <<>>
    /\ trace = NoTrace

NextChannel ==
    \/ \E texts \in ArgValues(textsWithIds(ContextPool), MaxTexts),
          topics \in ArgValues(topicsWithIds(TopicPool), MaxMapTopics) :
          CallClassify(texts, topics)
    \/ CallIsAvailable
    \/ \E message \in RawMessages : CallRaw(message)
    \/ NoReceiver
    \/ OnMessage
    \/ StatusRespond
    \/ SwAvailability
    \/ \E ok, quotaHigh \in BOOLEAN : SwCreate(ok, quotaHigh)
    \/ \E ok, quotaHigh \in BOOLEAN : SwRecreate(ok, quotaHigh)
    \/ \E quotaHigh \in BOOLEAN :
          \E answer \in Answers(Len(sw.topics.items)) :
             SwLoop(answer, quotaHigh)
    \/ ClassifyRespond
    \/ ChannelCallback

SpecChannel == InitChannel /\ [][NextChannel]_vars

(***************************************************************************)
(* One classifyParallel call with one text more than MAX_PARALLEL, so that *)
(* the loop of classifyParallel runs two batches.                          *)
(***************************************************************************)
ManyTexts ==
    JsArray(textsWithIds([i \in 1..(MAX_PARALLEL + 1) |->
                             ContextPool[((i - 1) % Len(ContextPool)) + 1]]))

OneTopic == JsArray(topicsWithIds(<<TopicPool[1]>>))

\* The answers of a prompt in this call: not JSON, or the topic as a match.
ParallelAnswers ==
    {[kind |-> "notjson", topic_ids |-> <<>>],
     [kind |-> "json", topic_ids |-> <<TopicId(0)>>]}

NextParallel ==
    \/ SwReceive("classifyParallel", FALSE, ManyTexts, OneTopic)
    \/ SwAvailability
    \/ \E k \in Indices(sw.tasks), ok \in BOOLEAN : TaskCreate(k, ok)
    \/ \E k \in Indices(sw.tasks), answer \in ParallelAnswers : TaskPrompt(k, answer)
    \/ SwGather

SpecParallel == InitClassifier /\ [][NextParallel]_vars

(***************************************************************************)
(* Direct calls of hideVideo, showVideo and deleteVideo on one tile, from  *)
(* every state the host page can give a tile: attached or detached, with   *)
(* or without inline styles of its own.                                    *)
(***************************************************************************)
MaxOps == 3

\* Inline style values the host page sets itself.
HostTiles ==
    {[AbsentTile EXCEPT !.status = st, !.title = title,
                        !.channel = channel, !.opacity = o,
                        !.pointerEvents = pe, !.position = pos, !.display = d] :
        st \in {"attached", "detached"}, title \in {Null, TitlePool[1]},
        channel \in {Null, ChannelPool[1]}, o \in {"", "0.8"},
        pe \in {"", "auto"}, pos \in {"", "absolute"}, d \in {"", "none", "block"}}

TileOps == {"hideVideo", "showVideo", "deleteVideo"}

tileOp(op, el) ==
    IF op = "hideVideo" THEN hideVideo(el)
    ELSE IF op = "showVideo" THEN showVideo(el)
    ELSE deleteVideo(el)

InitActions ==
    /\ InitPipeline
    /\ mapCall = NoCall
    /\ mapOut = NoOut
    /\ gw = NoGw
    /\ availability = "available"
    /\ sw = IdleSw
    /\ sessions = <<>>
    /\ \E el \in HostTiles :
          trace = [before |-> el, ops |-> <<>>, states |-> <<>>, contexts |-> <<>>]

\* The state of the tile the next call acts on.
TraceState == IF trace.states = <<>> THEN trace.before ELSE trace.states[Len(trace.states)]

TileCall(op) ==
    /\ Len(trace.ops) < MaxOps
    /\ trace' = [trace EXCEPT !.ops = Append(@, op),
                              !.states = Append(@, tileOp(op, TraceState))]
    /\ UNCHANGED <<pipelineVars, popup, shorts, mapCall, mapOut, gw, availability, sw, sessions>>

\* extractVideoContext(videoElement) is called on the tile: it reads the
\* tile and returns a string or null.
ContextCall ==
    /\ Len(trace.ops) < MaxOps
    /\ trace' = [trace EXCEPT
           !.ops = Append(@, "extractVideoContext"),
           !.states = Append(@, TraceState),
           !.contexts = Append(@, [at |-> Len(trace.ops) + 1,
                                   value |-> extractVideoContext(TraceState)])]
    /\ UNCHANGED <<pipelineVars, popup, shorts, mapCall, mapOut, gw, availability, sw, sessions>>

NextActions ==
    \/ \E op \in TileOps : TileCall(op)
    \/ ContextCall

SpecActions == InitActions /\ [][NextActions]_vars

(***************************************************************************)
(* Topic list (topicsModel.js) and the topic handlers of the popup.        *)
(***************************************************************************)
MaxWrites == 2         \* storage writes of the popup in flight

\* The content script's variables other than the settings store.
contentVars == <<excludedTopics, videoAction, isScanning, scanTimeout,
                 debounceTimers, observerTimeout, urlTimers, pendingLoads,
                 processedVideos, cycles, dom, href, currentUrl,
                 batchCount, ev, clock>>

\* What the user types into the topic input or an edit field: strings as
\* sequences of characters (empty, blank, padded with spaces, tabs or line
\* breaks, with a space inside, upper- and lower-case spellings of ASCII
\* letters, of an accented Latin letter and of the Cyrillic letter tje).
RawTopics ==
    {<<>>, <<" ">>, <<"a", " ", "b">>, <<" ", "A", " ", "B", "\t">>,
     <<"U+00E9", "U+1C8A">>, <<"\n", "U+00C9", "U+1C89", " ">>}

\* String.prototype.toLowerCase and String.prototype.trim.  A character is a
\* one-character string when it is a printable ASCII character, else its
\* code point as "U+XXXX".
\*
\* The characters that have a lower-case mapping of one character in the
\* Unicode character database (version 17.0), in code point order,
LowerCaseFrom ==
    <<"A", "B", "C", "D", "E", "F", "G", "H", "I", "J", "K", "L", "M", "N", "O", "P", "Q", "R",
     "S", "T", "U", "V", "W", "X", "Y", "Z", "U+00C0", "U+00C1", "U+00C2", "U+00C3", "U+00C4",
     "U+00C5", "U+00C6", "U+00C7", "U+00C8", "U+00C9", "U+00CA", "U+00CB", "U+00CC", "U+00CD",
     "U+00CE", "U+00CF", "U+00D0", "U+00D1", "U+00D2", "U+00D3", "U+00D4", "U+00D5", "U+00D6",
     "U+00D8", "U+00D9", "U+00DA", "U+00DB", "U+00DC", "U+00DD", "U+00DE", "U+0100", "U+0102",
     "U+0104", "U+0106", "U+0108", "U+010A", "U+010C", "U+010E", "U+0110", "U+0112", "U+0114",
     "U+0116", "U+0118", "U+011A", "U+011C", "U+011E", "U+0120", "U+0122", "U+0124", "U+0126",
     "U+0128", "U+012A", "U+012C", "U+012E", "U+0132", "U+0134", "U+0136", "U+0139", "U+013B",
     "U+013D", "U+013F", "U+0141", "U+0143", "U+0145", "U+0147", "U+014A", "U+014C", "U+014E",
     "U+0150", "U+0152", "U+0154", "U+0156", "U+0158", "U+015A", "U+015C", "U+015E", "U+0160",
     "U+0162", "U+0164", "U+0166", "U+0168", "U+016A", "U+016C", "U+016E", "U+0170", "U+0172",
     "U+0174", "U+0176", "U+0178", "U+0179", "U+017B", "U+017D", "U+0181", "U+0182", "U+0184",
     "U+0186", "U+0187", "U+0189", "U+018A", "U+018B", "U+018E", "U+018F", "U+0190", "U+0191",
     "U+0193", "U+0194", "U+0196", "U+0197", "U+0198", "U+019C", "U+019D", "U+019F", "U+01A0",
     "U+01A2", "U+01A4", "U+01A6", "U+01A7", "U+01A9", "U+01AC", "U+01AE", "U+01AF", "U+01B1",
     "U+01B2", "U+01B3", "U+01B5", "U+01B7", "U+01B8", "U+01BC", "U+01C4", "U+01C5", "U+01C7",
     "U+01C8", "U+01CA", "U+01CB", "U+01CD", "U+01CF", "U+01D1", "U+01D3", "U+01D5", "U+01D7",
     "U+01D9", "U+01DB", "U+01DE", "U+01E0", "U+01E2", "U+01E4", "U+01E6", "U+01E8", "U+01EA",
     "U+01EC", "U+01EE", "U+01F1", "U+01F2", "U+01F4", "U+01F6", "U+01F7", "U+01F8", "U+01FA",
     "U+01FC", "U+01FE", "U+0200", "U+0202", "U+0204", "U+0206", "U+0208", "U+020A", "U+020C",
     "U+020E", "U+0210", "U+0212", "U+0214", "U+0216", "U+0218", "U+021A", "U+021C", "U+021E",
     "U+0220", "U+0222", "U+0224", "U+0226", "U+0228", "U+022A", "U+022C", "U+022E", "U+0230",
     "U+0232", "U+023A", "U+023B", "U+023D", "U+023E", "U+0241", "U+0243", "U+0244", "U+0245",
     "U+0246", "U+0248", "U+024A", "U+024C", "U+024E", "U+0370", "U+0372", "U+0376", "U+037F",
     "U+0386", "U+0388", "U+0389", "U+038A", "U+038C", "U+038E", "U+038F", "U+0391", "U+0392",
     "U+0393", "U+0394", "U+0395", "U+0396", "U+0397", "U+0398", "U+0399", "U+039A", "U+039B",
     "U+039C", "U+039D", "U+039E", "U+039F", "U+03A0", "U+03A1", "U+03A3", "U+03A4", "U+03A5",
     "U+03A6", "U+03A7", "U+03A8", "U+03A9", "U+03AA", "U+03AB", "U+03CF", "U+03D8", "U+03DA",
     "U+03DC", "U+03DE", "U+03E0", "U+03E2", "U+03E4", "U+03E6", "U+03E8", "U+03EA", "U+03EC",
     "U+03EE", "U+03F4", "U+03F7", "U+03F9", "U+03FA", "U+03FD", "U+03FE", "U+03FF", "U+0400",
     "U+0401", "U+0402", "U+0403", "U+0404", "U+0405", "U+0406", "U+0407", "U+0408", "U+0409",
     "U+040A", "U+040B", "U+040C", "U+040D", "U+040E", "U+040F", "U+0410", "U+0411", "U+0412",
     "U+0413", "U+0414", "U+0415", "U+0416", "U+0417", "U+0418", "U+0419", "U+041A", "U+041B",
     "U+041C", "U+041D", "U+041E", "U+041F", "U+0420", "U+0421", "U+0422", "U+0423", "U+0424",
     "U+0425", "U+0426", "U+0427", "U+0428", "U+0429", "U+042A", "U+042B", "U+042C", "U+042D",
     "U+042E", "U+042F", "U+0460", "U+0462", "U+0464", "U+0466", "U+0468", "U+046A", "U+046C",
     "U+046E", "U+0470", "U+0472", "U+0474", "U+0476", "U+0478", "U+047A", "U+047C", "U+047E",
     "U+0480", "U+048A", "U+048C", "U+048E", "U+0490", "U+0492", "U+0494", "U+0496", "U+0498",
     "U+049A", "U+049C", "U+049E", "U+04A0", "U+04A2", "U+04A4", "U+04A6", "U+04A8", "U+04AA",
     "U+04AC", "U+04AE", "U+04B0", "U+04B2", "U+04B4", "U+04B6", "U+04B8", "U+04BA", "U+04BC",
     "U+04BE", "U+04C0", "U+04C1", "U+04C3", "U+04C5", "U+04C7", "U+04C9", "U+04CB", "U+04CD",
     "U+04D0", "U+04D2", "U+04D4", "U+04D6", "U+04D8", "U+04DA", "U+04DC", "U+04DE", "U+04E0",
     "U+04E2", "U+04E4", "U+04E6", "U+04E8", "U+04EA", "U+04EC", "U+04EE", "U+04F0", "U+04F2",
     "U+04F4", "U+04F6", "U+04F8", "U+04FA", "U+04FC", "U+04FE", "U+0500", "U+0502", "U+0504",
     "U+0506", "U+0508", "U+050A", "U+050C", "U+050E", "U+0510", "U+0512", "U+0514", "U+0516",
     "U+0518", "U+051A", "U+051C", "U+051E", "U+0520", "U+0522", "U+0524", "U+0526", "U+0528",
     "U+052A", "U+052C", "U+052E", "U+0531", "U+0532", "U+0533", "U+0534", "U+0535", "U+0536",
     "U+0537", "U+0538", "U+0539", "U+053A", "U+053B", "U+053C", "U+053D", "U+053E", "U+053F",
     "U+0540", "U+0541", "U+0542", "U+0543", "U+0544", "U+0545", "U+0546", "U+0547", "U+0548",
     "U+0549", "U+054A", "U+054B", "U+054C", "U+054D", "U+054E", "U+054F", "U+0550", "U+0551",
     "U+0552", "U+0553", "U+0554", "U+0555", "U+0556", "U+10A0", "U+10A1", "U+10A2", "U+10A3",
     "U+10A4", "U+10A5", "U+10A6", "U+10A7", "U+10A8", "U+10A9", "U+10AA", "U+10AB", "U+10AC",
     "U+10AD", "U+10AE", "U+10AF", "U+10B0", "U+10B1", "U+10B2", "U+10B3", "U+10B4", "U+10B5",
     "U+10B6", "U+10B7", "U+10B8", "U+10B9", "U+10BA", "U+10BB", "U+10BC", "U+10BD", "U+10BE",
     "U+10BF", "U+10C0", "U+10C1", "U+10C2", "U+10C3", "U+10C4", "U+10C5", "U+10C7", "U+10CD",
     "U+13A0", "U+13A1", "U+13A2", "U+13A3", "U+13A4", "U+13A5", "U+13A6", "U+13A7", "U+13A8",
     "U+13A9", "U+13AA", "U+13AB", "U+13AC", "U+13AD", "U+13AE", "U+13AF", "U+13B0", "U+13B1",
     "U+13B2", "U+13B3", "U+13B4", "U+13B5", "U+13B6", "U+13B7", "U+13B8", "U+13B9", "U+13BA",
     "U+13BB", "U+13BC", "U+13BD", "U+13BE", "U+13BF", "U+13C0", "U+13C1", "U+13C2", "U+13C3",
     "U+13C4", "U+13C5", "U+13C6", "U+13C7", "U+13C8", "U+13C9", "U+13CA", "U+13CB", "U+13CC",
     "U+13CD", "U+13CE", "U+13CF", "U+13D0", "U+13D1", "U+13D2", "U+13D3", "U+13D4", "U+13D5",
     "U+13D6", "U+13D7", "U+13D8", "U+13D9", "U+13DA", "U+13DB", "U+13DC", "U+13DD", "U+13DE",
     "U+13DF", "U+13E0", "U+13E1", "U+13E2", "U+13E3", "U+13E4", "U+13E5", "U+13E6", "U+13E7",
     "U+13E8", "U+13E9", "U+13EA", "U+13EB", "U+13EC", "U+13ED", "U+13EE", "U+13EF", "U+13F0",
     "U+13F1", "U+13F2", "U+13F3", "U+13F4", "U+13F5", "U+1C89", "U+1C90", "U+1C91", "U+1C92",
     "U+1C93", "U+1C94", "U+1C95", "U+1C96", "U+1C97", "U+1C98", "U+1C99", "U+1C9A", "U+1C9B",
     "U+1C9C", "U+1C9D", "U+1C9E", "U+1C9F", "U+1CA0", "U+1CA1", "U+1CA2", "U+1CA3", "U+1CA4",
     "U+1CA5", "U+1CA6", "U+1CA7", "U+1CA8", "U+1CA9", "U+1CAA", "U+1CAB", "U+1CAC", "U+1CAD",
     "U+1CAE", "U+1CAF", "U+1CB0", "U+1CB1", "U+1CB2", "U+1CB3", "U+1CB4", "U+1CB5", "U+1CB6",
     "U+1CB7", "U+1CB8", "U+1CB9", "U+1CBA", "U+1CBD", "U+1CBE", "U+1CBF", "U+1E00", "U+1E02",
     "U+1E04", "U+1E06", "U+1E08", "U+1E0A", "U+1E0C", "U+1E0E", "U+1E10", "U+1E12", "U+1E14",
     "U+1E16", "U+1E18", "U+1E1A", "U+1E1C", "U+1E1E", "U+1E20", "U+1E22", "U+1E24", "U+1E26",
     "U+1E28", "U+1E2A", "U+1E2C", "U+1E2E", "U+1E30", "U+1E32", "U+1E34", "U+1E36", "U+1E38",
     "U+1E3A", "U+1E3C", "U+1E3E", "U+1E40", "U+1E42", "U+1E44", "U+1E46", "U+1E48", "U+1E4A",
     "U+1E4C", "U+1E4E", "U+1E50", "U+1E52", "U+1E54", "U+1E56", "U+1E58", "U+1E5A", "U+1E5C",
     "U+1E5E", "U+1E60", "U+1E62", "U+1E64", "U+1E66", "U+1E68", "U+1E6A", "U+1E6C", "U+1E6E",
     "U+1E70", "U+1E72", "U+1E74", "U+1E76", "U+1E78", "U+1E7A", "U+1E7C", "U+1E7E", "U+1E80",
     "U+1E82", "U+1E84", "U+1E86", "U+1E88", "U+1E8A", "U+1E8C", "U+1E8E", "U+1E90", "U+1E92",
     "U+1E94", "U+1E9E", "U+1EA0", "U+1EA2", "U+1EA4", "U+1EA6", "U+1EA8", "U+1EAA", "U+1EAC",
     "U+1EAE", "U+1EB0", "U+1EB2", "U+1EB4", "U+1EB6", "U+1EB8", "U+1EBA", "U+1EBC", "U+1EBE",
     "U+1EC0", "U+1EC2", "U+1EC4", "U+1EC6", "U+1EC8", "U+1ECA", "U+1ECC", "U+1ECE", "U+1ED0",
     "U+1ED2", "U+1ED4", "U+1ED6", "U+1ED8", "U+1EDA", "U+1EDC", "U+1EDE", "U+1EE0", "U+1EE2",
     "U+1EE4", "U+1EE6", "U+1EE8", "U+1EEA", "U+1EEC", "U+1EEE", "U+1EF0", "U+1EF2", "U+1EF4",
     "U+1EF6", "U+1EF8", "U+1EFA", "U+1EFC", "U+1EFE", "U+1F08", "U+1F09", "U+1F0A", "U+1F0B",
     "U+1F0C", "U+1F0D", "U+1F0E", "U+1F0F", "U+1F18", "U+1F19", "U+1F1A", "U+1F1B", "U+1F1C",
     "U+1F1D", "U+1F28", "U+1F29", "U+1F2A", "U+1F2B", "U+1F2C", "U+1F2D", "U+1F2E", "U+1F2F",
     "U+1F38", "U+1F39", "U+1F3A", "U+1F3B", "U+1F3C", "U+1F3D", "U+1F3E", "U+1F3F", "U+1F48",
     "U+1F49", "U+1F4A", "U+1F4B", "U+1F4C", "U+1F4D", "U+1F59", "U+1F5B", "U+1F5D", "U+1F5F",
     "U+1F68", "U+1F69", "U+1F6A", "U+1F6B", "U+1F6C", "U+1F6D", "U+1F6E", "U+1F6F", "U+1F88",
     "U+1F89", "U+1F8A", "U+1F8B", "U+1F8C", "U+1F8D", "U+1F8E", "U+1F8F", "U+1F98", "U+1F99",
     "U+1F9A", "U+1F9B", "U+1F9C", "U+1F9D", "U+1F9E", "U+1F9F", "U+1FA8", "U+1FA9", "U+1FAA",
     "U+1FAB", "U+1FAC", "U+1FAD", "U+1FAE", "U+1FAF", "U+1FB8", "U+1FB9", "U+1FBA", "U+1FBB",
     "U+1FBC", "U+1FC8", "U+1FC9", "U+1FCA", "U+1FCB", "U+1FCC", "U+1FD8", "U+1FD9", "U+1FDA",
     "U+1FDB", "U+1FE8", "U+1FE9", "U+1FEA", "U+1FEB", "U+1FEC", "U+1FF8", "U+1FF9", "U+1FFA",
     "U+1FFB", "U+1FFC", "U+2126", "U+212A", "U+212B", "U+2132", "U+2160", "U+2161", "U+2162",
     "U+2163", "U+2164", "U+2165", "U+2166", "U+2167", "U+2168", "U+2169", "U+216A", "U+216B",
     "U+216C", "U+216D", "U+216E", "U+216F", "U+2183", "U+24B6", "U+24B7", "U+24B8", "U+24B9",
     "U+24BA", "U+24BB", "U+24BC", "U+24BD", "U+24BE", "U+24BF", "U+24C0", "U+24C1", "U+24C2",
     "U+24C3", "U+24C4", "U+24C5", "U+24C6", "U+24C7", "U+24C8", "U+24C9", "U+24CA", "U+24CB",
     "U+24CC", "U+24CD", "U+24CE", "U+24CF", "U+2C00", "U+2C01", "U+2C02", "U+2C03", "U+2C04",
     "U+2C05", "U+2C06", "U+2C07", "U+2C08", "U+2C09", "U+2C0A", "U+2C0B", "U+2C0C", "U+2C0D",
     "U+2C0E", "U+2C0F", "U+2C10", "U+2C11", "U+2C12", "U+2C13", "U+2C14", "U+2C15", "U+2C16",
     "U+2C17", "U+2C18", "U+2C19", "U+2C1A", "U+2C1B", "U+2C1C", "U+2C1D", "U+2C1E", "U+2C1F",
     "U+2C20", "U+2C21", "U+2C22", "U+2C23", "U+2C24", "U+2C25", "U+2C26", "U+2C27", "U+2C28",
     "U+2C29", "U+2C2A", "U+2C2B", "U+2C2C", "U+2C2D", "U+2C2E", "U+2C2F", "U+2C60", "U+2C62",
     "U+2C63", "U+2C64", "U+2C67", "U+2C69", "U+2C6B", "U+2C6D", "U+2C6E", "U+2C6F", "U+2C70",
     "U+2C72", "U+2C75", "U+2C7E", "U+2C7F", "U+2C80", "U+2C82", "U+2C84", "U+2C86", "U+2C88",
     "U+2C8A", "U+2C8C", "U+2C8E", "U+2C90", "U+2C92", "U+2C94", "U+2C96", "U+2C98", "U+2C9A",
     "U+2C9C", "U+2C9E", "U+2CA0", "U+2CA2", "U+2CA4", "U+2CA6", "U+2CA8", "U+2CAA", "U+2CAC",
     "U+2CAE", "U+2CB0", "U+2CB2", "U+2CB4", "U+2CB6", "U+2CB8", "U+2CBA", "U+2CBC", "U+2CBE",
     "U+2CC0", "U+2CC2", "U+2CC4", "U+2CC6", "U+2CC8", "U+2CCA", "U+2CCC", "U+2CCE", "U+2CD0",
     "U+2CD2", "U+2CD4", "U+2CD6", "U+2CD8", "U+2CDA", "U+2CDC", "U+2CDE", "U+2CE0", "U+2CE2",
     "U+2CEB", "U+2CED", "U+2CF2", "U+A640", "U+A642", "U+A644", "U+A646", "U+A648", "U+A64A",
     "U+A64C", "U+A64E", "U+A650", "U+A652", "U+A654", "U+A656", "U+A658", "U+A65A", "U+A65C",
     "U+A65E", "U+A660", "U+A662", "U+A664", "U+A666", "U+A668", "U+A66A", "U+A66C", "U+A680",
     "U+A682", "U+A684", "U+A686", "U+A688", "U+A68A", "U+A68C", "U+A68E", "U+A690", "U+A692",
     "U+A694", "U+A696", "U+A698", "U+A69A", "U+A722", "U+A724", "U+A726", "U+A728", "U+A72A",
     "U+A72C", "U+A72E", "U+A732", "U+A734", "U+A736", "U+A738", "U+A73A", "U+A73C", "U+A73E",
     "U+A740", "U+A742", "U+A744", "U+A746", "U+A748", "U+A74A", "U+A74C", "U+A74E", "U+A750",
     "U+A752", "U+A754", "U+A756", "U+A758", "U+A75A", "U+A75C", "U+A75E", "U+A760", "U+A762",
     "U+A764", "U+A766", "U+A768", "U+A76A", "U+A76C", "U+A76E", "U+A779", "U+A77B", "U+A77D",
     "U+A77E", "U+A780", "U+A782", "U+A784", "U+A786", "U+A78B", "U+A78D", "U+A790", "U+A792",
     "U+A796", "U+A798", "U+A79A", "U+A79C", "U+A79E", "U+A7A0", "U+A7A2", "U+A7A4", "U+A7A6",
     "U+A7A8", "U+A7AA", "U+A7AB", "U+A7AC", "U+A7AD", "U+A7AE", "U+A7B0", "U+A7B1", "U+A7B2",
     "U+A7B3", "U+A7B4", "U+A7B6", "U+A7B8", "U+A7BA", "U+A7BC", "U+A7BE", "U+A7C0", "U+A7C2",
     "U+A7C4", "U+A7C5", "U+A7C6", "U+A7C7", "U+A7C9", "U+A7CB", "U+A7CC", "U+A7CE", "U+A7D0",
     "U+A7D2", "U+A7D4", "U+A7D6", "U+A7D8", "U+A7DA", "U+A7DC", "U+A7F5", "U+FF21", "U+FF22",
     "U+FF23", "U+FF24", "U+FF25", "U+FF26", "U+FF27", "U+FF28", "U+FF29", "U+FF2A", "U+FF2B",
     "U+FF2C", "U+FF2D", "U+FF2E", "U+FF2F", "U+FF30", "U+FF31", "U+FF32", "U+FF33", "U+FF34",
     "U+FF35", "U+FF36", "U+FF37", "U+FF38", "U+FF39", "U+FF3A", "U+10400", "U+10401", "U+10402",
     "U+10403", "U+10404", "U+10405", "U+10406", "U+10407", "U+10408", "U+10409", "U+1040A",
     "U+1040B", "U+1040C", "U+1040D", "U+1040E", "U+1040F", "U+10410", "U+10411", "U+10412",
     "U+10413", "U+10414", "U+10415", "U+10416", "U+10417", "U+10418", "U+10419", "U+1041A",
     "U+1041B", "U+1041C", "U+1041D", "U+1041E", "U+1041F", "U+10420", "U+10421", "U+10422",
     "U+10423", "U+10424", "U+10425", "U+10426", "U+10427", "U+104B0", "U+104B1", "U+104B2",
     "U+104B3", "U+104B4", "U+104B5", "U+104B6", "U+104B7", "U+104B8", "U+104B9", "U+104BA",
     "U+104BB", "U+104BC", "U+104BD", "U+104BE", "U+104BF", "U+104C0", "U+104C1", "U+104C2",
     "U+104C3", "U+104C4", "U+104C5", "U+104C6", "U+104C7", "U+104C8", "U+104C9", "U+104CA",
     "U+104CB", "U+104CC", "U+104CD", "U+104CE", "U+104CF", "U+104D0", "U+104D1", "U+104D2",
     "U+104D3", "U+10570", "U+10571", "U+10572", "U+10573", "U+10574", "U+10575", "U+10576",
     "U+10577", "U+10578", "U+10579", "U+1057A", "U+1057C", "U+1057D", "U+1057E", "U+1057F",
     "U+10580", "U+10581", "U+10582", "U+10583", "U+10584", "U+10585", "U+10586", "U+10587",
     "U+10588", "U+10589", "U+1058A", "U+1058C", "U+1058D", "U+1058E", "U+1058F", "U+10590",
     "U+10591", "U+10592", "U+10594", "U+10595", "U+10C80", "U+10C81", "U+10C82", "U+10C83",
     "U+10C84", "U+10C85", "U+10C86", "U+10C87", "U+10C88", "U+10C89", "U+10C8A", "U+10C8B",
     "U+10C8C", "U+10C8D", "U+10C8E", "U+10C8F", "U+10C90", "U+10C91", "U+10C92", "U+10C93",
     "U+10C94", "U+10C95", "U+10C96", "U+10C97", "U+10C98", "U+10C99", "U+10C9A", "U+10C9B",
     "U+10C9C", "U+10C9D", "U+10C9E", "U+10C9F", "U+10CA0", "U+10CA1", "U+10CA2", "U+10CA3",
     "U+10CA4", "U+10CA5", "U+10CA6", "U+10CA7", "U+10CA8", "U+10CA9", "U+10CAA", "U+10CAB",
     "U+10CAC", "U+10CAD", "U+10CAE", "U+10CAF", "U+10CB0", "U+10CB1", "U+10CB2", "U+10D50",
     "U+10D51", "U+10D52", "U+10D53", "U+10D54", "U+10D55", "U+10D56", "U+10D57", "U+10D58",
     "U+10D59", "U+10D5A", "U+10D5B", "U+10D5C", "U+10D5D", "U+10D5E", "U+10D5F", "U+10D60",
     "U+10D61", "U+10D62", "U+10D63", "U+10D64", "U+10D65", "U+118A0", "U+118A1", "U+118A2",
     "U+118A3", "U+118A4", "U+118A5", "U+118A6", "U+118A7", "U+118A8", "U+118A9", "U+118AA",
     "U+118AB", "U+118AC", "U+118AD", "U+118AE", "U+118AF", "U+118B0", "U+118B1", "U+118B2",
     "U+118B3", "U+118B4", "U+118B5", "U+118B6", "U+118B7", "U+118B8", "U+118B9", "U+118BA",
     "U+118BB", "U+118BC", "U+118BD", "U+118BE", "U+118BF", "U+16E40", "U+16E41", "U+16E42",
     "U+16E43", "U+16E44", "U+16E45", "U+16E46", "U+16E47", "U+16E48", "U+16E49", "U+16E4A",
     "U+16E4B", "U+16E4C", "U+16E4D", "U+16E4E", "U+16E4F", "U+16E50", "U+16E51", "U+16E52",
     "U+16E53", "U+16E54", "U+16E55", "U+16E56", "U+16E57", "U+16E58", "U+16E59", "U+16E5A",
     "U+16E5B", "U+16E5C", "U+16E5D", "U+16E5E", "U+16E5F", "U+16EA0", "U+16EA1", "U+16EA2",
     "U+16EA3", "U+16EA4", "U+16EA5", "U+16EA6", "U+16EA7", "U+16EA8", "U+16EA9", "U+16EAA",
     "U+16EAB", "U+16EAC", "U+16EAD", "U+16EAE", "U+16EAF", "U+16EB0", "U+16EB1", "U+16EB2",
     "U+16EB3", "U+16EB4", "U+16EB5", "U+16EB6", "U+16EB7", "U+16EB8", "U+1E900", "U+1E901",
     "U+1E902", "U+1E903", "U+1E904", "U+1E905", "U+1E906", "U+1E907", "U+1E908", "U+1E909",
     "U+1E90A", "U+1E90B", "U+1E90C", "U+1E90D", "U+1E90E", "U+1E90F", "U+1E910", "U+1E911",
     "U+1E912", "U+1E913", "U+1E914", "U+1E915", "U+1E916", "U+1E917", "U+1E918", "U+1E919",
     "U+1E91A", "U+1E91B", "U+1E91C", "U+1E91D", "U+1E91E", "U+1E91F", "U+1E920", "U+1E921">>

\* and their lower-case mappings, position by position.
LowerCaseTo ==
    <<"a", "b", "c", "d", "e", "f", "g", "h", "i", "j", "k", "l", "m", "n", "o", "p", "q", "r",
     "s", "t", "u", "v", "w", "x", "y", "z", "U+00E0", "U+00E1", "U+00E2", "U+00E3", "U+00E4",
     "U+00E5", "U+00E6", "U+00E7", "U+00E8", "U+00E9", "U+00EA", "U+00EB", "U+00EC", "U+00ED",
     "U+00EE", "U+00EF", "U+00F0", "U+00F1", "U+00F2", "U+00F3", "U+00F4", "U+00F5", "U+00F6",
     "U+00F8", "U+00F9", "U+00FA", "U+00FB", "U+00FC", "U+00FD", "U+00FE", "U+0101", "U+0103",
     "U+0105", "U+0107", "U+0109", "U+010B", "U+010D", "U+010F", "U+0111", "U+0113", "U+0115",
     "U+0117", "U+0119", "U+011B", "U+011D", "U+011F", "U+0121", "U+0123", "U+0125", "U+0127",
     "U+0129", "U+012B", "U+012D", "U+012F", "U+0133", "U+0135", "U+0137", "U+013A", "U+013C",
     "U+013E", "U+0140", "U+0142", "U+0144", "U+0146", "U+0148", "U+014B", "U+014D", "U+014F",
     "U+0151", "U+0153", "U+0155", "U+0157", "U+0159", "U+015B", "U+015D", "U+015F", "U+0161",
     "U+0163", "U+0165", "U+0167", "U+0169", "U+016B", "U+016D", "U+016F", "U+0171", "U+0173",
     "U+0175", "U+0177", "U+00FF", "U+017A", "U+017C", "U+017E", "U+0253", "U+0183", "U+0185",
     "U+0254", "U+0188", "U+0256", "U+0257", "U+018C", "U+01DD", "U+0259", "U+025B", "U+0192",
     "U+0260", "U+0263", "U+0269", "U+0268", "U+0199", "U+026F", "U+0272", "U+0275", "U+01A1",
     "U+01A3", "U+01A5", "U+0280", "U+01A8", "U+0283", "U+01AD", "U+0288", "U+01B0", "U+028A",
     "U+028B", "U+01B4", "U+01B6", "U+0292", "U+01B9", "U+01BD", "U+01C6", "U+01C6", "U+01C9",
     "U+01C9", "U+01CC", "U+01CC", "U+01CE", "U+01D0", "U+01D2", "U+01D4", "U+01D6", "U+01D8",
     "U+01DA", "U+01DC", "U+01DF", "U+01E1", "U+01E3", "U+01E5", "U+01E7", "U+01E9", "U+01EB",
     "U+01ED", "U+01EF", "U+01F3", "U+01F3", "U+01F5", "U+0195", "U+01BF", "U+01F9", "U+01FB",
     "U+01FD", "U+01FF", "U+0201", "U+0203", "U+0205", "U+0207", "U+0209", "U+020B", "U+020D",
     "U+020F", "U+0211", "U+0213", "U+0215", "U+0217", "U+0219", "U+021B", "U+021D", "U+021F",
     "U+019E", "U+0223", "U+0225", "U+0227", "U+0229", "U+022B", "U+022D", "U+022F", "U+0231",
     "U+0233", "U+2C65", "U+023C", "U+019A", "U+2C66", "U+0242", "U+0180", "U+0289", "U+028C",
     "U+0247", "U+0249", "U+024B", "U+024D", "U+024F", "U+0371", "U+0373", "U+0377", "U+03F3",
     "U+03AC", "U+03AD", "U+03AE", "U+03AF", "U+03CC", "U+03CD", "U+03CE", "U+03B1", "U+03B2",
     "U+03B3", "U+03B4", "U+03B5", "U+03B6", "U+03B7", "U+03B8", "U+03B9", "U+03BA", "U+03BB",
     "U+03BC", "U+03BD", "U+03BE", "U+03BF", "U+03C0", "U+03C1", "U+03C3", "U+03C4", "U+03C5",
     "U+03C6", "U+03C7", "U+03C8", "U+03C9", "U+03CA", "U+03CB", "U+03D7", "U+03D9", "U+03DB",
     "U+03DD", "U+03DF", "U+03E1", "U+03E3", "U+03E5", "U+03E7", "U+03E9", "U+03EB", "U+03ED",
     "U+03EF", "U+03B8", "U+03F8", "U+03F2", "U+03FB", "U+037B", "U+037C", "U+037D", "U+0450",
     "U+0451", "U+0452", "U+0453", "U+0454", "U+0455", "U+0456", "U+0457", "U+0458", "U+0459",
     "U+045A", "U+045B", "U+045C", "U+045D", "U+045E", "U+045F", "U+0430", "U+0431", "U+0432",
     "U+0433", "U+0434", "U+0435", "U+0436", "U+0437", "U+0438", "U+0439", "U+043A", "U+043B",
     "U+043C", "U+043D", "U+043E", "U+043F", "U+0440", "U+0441", "U+0442", "U+0443", "U+0444",
     "U+0445", "U+0446", "U+0447", "U+0448", "U+0449", "U+044A", "U+044B", "U+044C", "U+044D",
     "U+044E", "U+044F", "U+0461", "U+0463", "U+0465", "U+0467", "U+0469", "U+046B", "U+046D",
     "U+046F", "U+0471", "U+0473", "U+0475", "U+0477", "U+0479", "U+047B", "U+047D", "U+047F",
     "U+0481", "U+048B", "U+048D", "U+048F", "U+0491", "U+0493", "U+0495", "U+0497", "U+0499",
     "U+049B", "U+049D", "U+049F", "U+04A1", "U+04A3", "U+04A5", "U+04A7", "U+04A9", "U+04AB",
     "U+04AD", "U+04AF", "U+04B1", "U+04B3", "U+04B5", "U+04B7", "U+04B9", "U+04BB", "U+04BD",
     "U+04BF", "U+04CF", "U+04C2", "U+04C4", "U+04C6", "U+04C8", "U+04CA", "U+04CC", "U+04CE",
     "U+04D1", "U+04D3", "U+04D5", "U+04D7", "U+04D9", "U+04DB", "U+04DD", "U+04DF", "U+04E1",
     "U+04E3", "U+04E5", "U+04E7", "U+04E9", "U+04EB", "U+04ED", "U+04EF", "U+04F1", "U+04F3",
     "U+04F5", "U+04F7", "U+04F9", "U+04FB", "U+04FD", "U+04FF", "U+0501", "U+0503", "U+0505",
     "U+0507", "U+0509", "U+050B", "U+050D", "U+050F", "U+0511", "U+0513", "U+0515", "U+0517",
     "U+0519", "U+051B", "U+051D", "U+051F", "U+0521", "U+0523", "U+0525", "U+0527", "U+0529",
     "U+052B", "U+052D", "U+052F", "U+0561", "U+0562", "U+0563", "U+0564", "U+0565", "U+0566",
     "U+0567", "U+0568", "U+0569", "U+056A", "U+056B", "U+056C", "U+056D", "U+056E", "U+056F",
     "U+0570", "U+0571", "U+0572", "U+0573", "U+0574", "U+0575", "U+0576", "U+0577", "U+0578",
     "U+0579", "U+057A", "U+057B", "U+057C", "U+057D", "U+057E", "U+057F", "U+0580", "U+0581",
     "U+0582", "U+0583", "U+0584", "U+0585", "U+0586", "U+2D00", "U+2D01", "U+2D02", "U+2D03",
     "U+2D04", "U+2D05", "U+2D06", "U+2D07", "U+2D08", "U+2D09", "U+2D0A", "U+2D0B", "U+2D0C",
     "U+2D0D", "U+2D0E", "U+2D0F", "U+2D10", "U+2D11", "U+2D12", "U+2D13", "U+2D14", "U+2D15",
     "U+2D16", "U+2D17", "U+2D18", "U+2D19", "U+2D1A", "U+2D1B", "U+2D1C", "U+2D1D", "U+2D1E",
     "U+2D1F", "U+2D20", "U+2D21", "U+2D22", "U+2D23", "U+2D24", "U+2D25", "U+2D27", "U+2D2D",
     "U+AB70", "U+AB71", "U+AB72", "U+AB73", "U+AB74", "U+AB75", "U+AB76", "U+AB77", "U+AB78",
     "U+AB79", "U+AB7A", "U+AB7B", "U+AB7C", "U+AB7D", "U+AB7E", "U+AB7F", "U+AB80", "U+AB81",
     "U+AB82", "U+AB83", "U+AB84", "U+AB85", "U+AB86", "U+AB87", "U+AB88", "U+AB89", "U+AB8A",
     "U+AB8B", "U+AB8C", "U+AB8D", "U+AB8E", "U+AB8F", "U+AB90", "U+AB91", "U+AB92", "U+AB93",
     "U+AB94", "U+AB95", "U+AB96", "U+AB97", "U+AB98", "U+AB99", "U+AB9A", "U+AB9B", "U+AB9C",
     "U+AB9D", "U+AB9E", "U+AB9F", "U+ABA0", "U+ABA1", "U+ABA2", "U+ABA3", "U+ABA4", "U+ABA5",
     "U+ABA6", "U+ABA7", "U+ABA8", "U+ABA9", "U+ABAA", "U+ABAB", "U+ABAC", "U+ABAD", "U+ABAE",
     "U+ABAF", "U+ABB0", "U+ABB1", "U+ABB2", "U+ABB3", "U+ABB4", "U+ABB5", "U+ABB6", "U+ABB7",
     "U+ABB8", "U+ABB9", "U+ABBA", "U+ABBB", "U+ABBC", "U+ABBD", "U+ABBE", "U+ABBF", "U+13F8",
     "U+13F9", "U+13FA", "U+13FB", "U+13FC", "U+13FD", "U+1C8A", "U+10D0", "U+10D1", "U+10D2",
     "U+10D3", "U+10D4", "U+10D5", "U+10D6", "U+10D7", "U+10D8", "U+10D9", "U+10DA", "U+10DB",
     "U+10DC", "U+10DD", "U+10DE", "U+10DF", "U+10E0", "U+10E1", "U+10E2", "U+10E3", "U+10E4",
     "U+10E5", "U+10E6", "U+10E7", "U+10E8", "U+10E9", "U+10EA", "U+10EB", "U+10EC", "U+10ED",
     "U+10EE", "U+10EF", "U+10F0", "U+10F1", "U+10F2", "U+10F3", "U+10F4", "U+10F5", "U+10F6",
     "U+10F7", "U+10F8", "U+10F9", "U+10FA", "U+10FD", "U+10FE", "U+10FF", "U+1E01", "U+1E03",
     "U+1E05", "U+1E07", "U+1E09", "U+1E0B", "U+1E0D", "U+1E0F", "U+1E11", "U+1E13", "U+1E15",
     "U+1E17", "U+1E19", "U+1E1B", "U+1E1D", "U+1E1F", "U+1E21", "U+1E23", "U+1E25", "U+1E27",
     "U+1E29", "U+1E2B", "U+1E2D", "U+1E2F", "U+1E31", "U+1E33", "U+1E35", "U+1E37", "U+1E39",
     "U+1E3B", "U+1E3D", "U+1E3F", "U+1E41", "U+1E43", "U+1E45", "U+1E47", "U+1E49", "U+1E4B",
     "U+1E4D", "U+1E4F", "U+1E51", "U+1E53", "U+1E55", "U+1E57", "U+1E59", "U+1E5B", "U+1E5D",
     "U+1E5F", "U+1E61", "U+1E63", "U+1E65", "U+1E67", "U+1E69", "U+1E6B", "U+1E6D", "U+1E6F",
     "U+1E71", "U+1E73", "U+1E75", "U+1E77", "U+1E79", "U+1E7B", "U+1E7D", "U+1E7F", "U+1E81",
     "U+1E83", "U+1E85", "U+1E87", "U+1E89", "U+1E8B", "U+1E8D", "U+1E8F", "U+1E91", "U+1E93",
     "U+1E95", "U+00DF", "U+1EA1", "U+1EA3", "U+1EA5", "U+1EA7", "U+1EA9", "U+1EAB", "U+1EAD",
     "U+1EAF", "U+1EB1", "U+1EB3", "U+1EB5", "U+1EB7", "U+1EB9", "U+1EBB", "U+1EBD", "U+1EBF",
     "U+1EC1", "U+1EC3", "U+1EC5", "U+1EC7", "U+1EC9", "U+1ECB", "U+1ECD", "U+1ECF", "U+1ED1",
     "U+1ED3", "U+1ED5", "U+1ED7", "U+1ED9", "U+1EDB", "U+1EDD", "U+1EDF", "U+1EE1", "U+1EE3",
     "U+1EE5", "U+1EE7", "U+1EE9", "U+1EEB", "U+1EED", "U+1EEF", "U+1EF1", "U+1EF3", "U+1EF5",
     "U+1EF7", "U+1EF9", "U+1EFB", "U+1EFD", "U+1EFF", "U+1F00", "U+1F01", "U+1F02", "U+1F03",
     "U+1F04", "U+1F05", "U+1F06", "U+1F07", "U+1F10", "U+1F11", "U+1F12", "U+1F13", "U+1F14",
     "U+1F15", "U+1F20", "U+1F21", "U+1F22", "U+1F23", "U+1F24", "U+1F25", "U+1F26", "U+1F27",
     "U+1F30", "U+1F31", "U+1F32", "U+1F33", "U+1F34", "U+1F35", "U+1F36", "U+1F37", "U+1F40",
     "U+1F41", "U+1F42", "U+1F43", "U+1F44", "U+1F45", "U+1F51", "U+1F53", "U+1F55", "U+1F57",
     "U+1F60", "U+1F61", "U+1F62", "U+1F63", "U+1F64", "U+1F65", "U+1F66", "U+1F67", "U+1F80",
     "U+1F81", "U+1F82", "U+1F83", "U+1F84", "U+1F85", "U+1F86", "U+1F87", "U+1F90", "U+1F91",
     "U+1F92", "U+1F93", "U+1F94", "U+1F95", "U+1F96", "U+1F97", "U+1FA0", "U+1FA1", "U+1FA2",
     "U+1FA3", "U+1FA4", "U+1FA5", "U+1FA6", "U+1FA7", "U+1FB0", "U+1FB1", "U+1F70", "U+1F71",
     "U+1FB3", "U+1F72", "U+1F73", "U+1F74", "U+1F75", "U+1FC3", "U+1FD0", "U+1FD1", "U+1F76",
     "U+1F77", "U+1FE0", "U+1FE1", "U+1F7A", "U+1F7B", "U+1FE5", "U+1F78", "U+1F79", "U+1F7C",
     "U+1F7D", "U+1FF3", "U+03C9", "k", "U+00E5", "U+214E", "U+2170", "U+2171", "U+2172",
     "U+2173", "U+2174", "U+2175", "U+2176", "U+2177", "U+2178", "U+2179", "U+217A", "U+217B",
     "U+217C", "U+217D", "U+217E", "U+217F", "U+2184", "U+24D0", "U+24D1", "U+24D2", "U+24D3",
     "U+24D4", "U+24D5", "U+24D6", "U+24D7", "U+24D8", "U+24D9", "U+24DA", "U+24DB", "U+24DC",
     "U+24DD", "U+24DE", "U+24DF", "U+24E0", "U+24E1", "U+24E2", "U+24E3", "U+24E4", "U+24E5",
     "U+24E6", "U+24E7", "U+24E8", "U+24E9", "U+2C30", "U+2C31", "U+2C32", "U+2C33", "U+2C34",
     "U+2C35", "U+2C36", "U+2C37", "U+2C38", "U+2C39", "U+2C3A", "U+2C3B", "U+2C3C", "U+2C3D",
     "U+2C3E", "U+2C3F", "U+2C40", "U+2C41", "U+2C42", "U+2C43", "U+2C44", "U+2C45", "U+2C46",
     "U+2C47", "U+2C48", "U+2C49", "U+2C4A", "U+2C4B", "U+2C4C", "U+2C4D", "U+2C4E", "U+2C4F",
     "U+2C50", "U+2C51", "U+2C52", "U+2C53", "U+2C54", "U+2C55", "U+2C56", "U+2C57", "U+2C58",
     "U+2C59", "U+2C5A", "U+2C5B", "U+2C5C", "U+2C5D", "U+2C5E", "U+2C5F", "U+2C61", "U+026B",
     "U+1D7D", "U+027D", "U+2C68", "U+2C6A", "U+2C6C", "U+0251", "U+0271", "U+0250", "U+0252",
     "U+2C73", "U+2C76", "U+023F", "U+0240", "U+2C81", "U+2C83", "U+2C85", "U+2C87", "U+2C89",
     "U+2C8B", "U+2C8D", "U+2C8F", "U+2C91", "U+2C93", "U+2C95", "U+2C97", "U+2C99", "U+2C9B",
     "U+2C9D", "U+2C9F", "U+2CA1", "U+2CA3", "U+2CA5", "U+2CA7", "U+2CA9", "U+2CAB", "U+2CAD",
     "U+2CAF", "U+2CB1", "U+2CB3", "U+2CB5", "U+2CB7", "U+2CB9", "U+2CBB", "U+2CBD", "U+2CBF",
     "U+2CC1", "U+2CC3", "U+2CC5", "U+2CC7", "U+2CC9", "U+2CCB", "U+2CCD", "U+2CCF", "U+2CD1",
     "U+2CD3", "U+2CD5", "U+2CD7", "U+2CD9", "U+2CDB", "U+2CDD", "U+2CDF", "U+2CE1", "U+2CE3",
     "U+2CEC", "U+2CEE", "U+2CF3", "U+A641", "U+A643", "U+A645", "U+A647", "U+A649", "U+A64B",
     "U+A64D", "U+A64F", "U+A651", "U+A653", "U+A655", "U+A657", "U+A659", "U+A65B", "U+A65D",
     "U+A65F", "U+A661", "U+A663", "U+A665", "U+A667", "U+A669", "U+A66B", "U+A66D", "U+A681",
     "U+A683", "U+A685", "U+A687", "U+A689", "U+A68B", "U+A68D", "U+A68F", "U+A691", "U+A693",
     "U+A695", "U+A697", "U+A699", "U+A69B", "U+A723", "U+A725", "U+A727", "U+A729", "U+A72B",
     "U+A72D", "U+A72F", "U+A733", "U+A735", "U+A737", "U+A739", "U+A73B", "U+A73D", "U+A73F",
     "U+A741", "U+A743", "U+A745", "U+A747", "U+A749", "U+A74B", "U+A74D", "U+A74F", "U+A751",
     "U+A753", "U+A755", "U+A757", "U+A759", "U+A75B", "U+A75D", "U+A75F", "U+A761", "U+A763",
     "U+A765", "U+A767", "U+A769", "U+A76B", "U+A76D", "U+A76F", "U+A77A", "U+A77C", "U+1D79",
     "U+A77F", "U+A781", "U+A783", "U+A785", "U+A787", "U+A78C", "U+0265", "U+A791", "U+A793",
     "U+A797", "U+A799", "U+A79B", "U+A79D", "U+A79F", "U+A7A1", "U+A7A3", "U+A7A5", "U+A7A7",
     "U+A7A9", "U+0266", "U+025C", "U+0261", "U+026C", "U+026A", "U+029E", "U+0287", "U+029D",
     "U+AB53", "U+A7B5", "U+A7B7", "U+A7B9", "U+A7BB", "U+A7BD", "U+A7BF", "U+A7C1", "U+A7C3",
     "U+A794", "U+0282", "U+1D8E", "U+A7C8", "U+A7CA", "U+0264", "U+A7CD", "U+A7CF", "U+A7D1",
     "U+A7D3", "U+A7D5", "U+A7D7", "U+A7D9", "U+A7DB", "U+019B", "U+A7F6", "U+FF41", "U+FF42",
     "U+FF43", "U+FF44", "U+FF45", "U+FF46", "U+FF47", "U+FF48", "U+FF49", "U+FF4A", "U+FF4B",
     "U+FF4C", "U+FF4D", "U+FF4E", "U+FF4F", "U+FF50", "U+FF51", "U+FF52", "U+FF53", "U+FF54",
     "U+FF55", "U+FF56", "U+FF57", "U+FF58", "U+FF59", "U+FF5A", "U+10428", "U+10429", "U+1042A",
     "U+1042B", "U+1042C", "U+1042D", "U+1042E", "U+1042F", "U+10430", "U+10431", "U+10432",
     "U+10433", "U+10434", "U+10435", "U+10436", "U+10437", "U+10438", "U+10439", "U+1043A",
     "U+1043B", "U+1043C", "U+1043D", "U+1043E", "U+1043F", "U+10440", "U+10441", "U+10442",
     "U+10443", "U+10444", "U+10445", "U+10446", "U+10447", "U+10448", "U+10449", "U+1044A",
     "U+1044B", "U+1044C", "U+1044D", "U+1044E", "U+1044F", "U+104D8", "U+104D9", "U+104DA",
     "U+104DB", "U+104DC", "U+104DD", "U+104DE", "U+104DF", "U+104E0", "U+104E1", "U+104E2",
     "U+104E3", "U+104E4", "U+104E5", "U+104E6", "U+104E7", "U+104E8", "U+104E9", "U+104EA",
     "U+104EB", "U+104EC", "U+104ED", "U+104EE", "U+104EF", "U+104F0", "U+104F1", "U+104F2",
     "U+104F3", "U+104F4", "U+104F5", "U+104F6", "U+104F7", "U+104F8", "U+104F9", "U+104FA",
     "U+104FB", "U+10597", "U+10598", "U+10599", "U+1059A", "U+1059B", "U+1059C", "U+1059D",
     "U+1059E", "U+1059F", "U+105A0", "U+105A1", "U+105A3", "U+105A4", "U+105A5", "U+105A6",
     "U+105A7", "U+105A8", "U+105A9", "U+105AA", "U+105AB", "U+105AC", "U+105AD", "U+105AE",
     "U+105AF", "U+105B0", "U+105B1", "U+105B3", "U+105B4", "U+105B5", "U+105B6", "U+105B7",
     "U+105B8", "U+105B9", "U+105BB", "U+105BC", "U+10CC0", "U+10CC1", "U+10CC2", "U+10CC3",
     "U+10CC4", "U+10CC5", "U+10CC6", "U+10CC7", "U+10CC8", "U+10CC9", "U+10CCA", "U+10CCB",
     "U+10CCC", "U+10CCD", "U+10CCE", "U+10CCF", "U+10CD0", "U+10CD1", "U+10CD2", "U+10CD3",
     "U+10CD4", "U+10CD5", "U+10CD6", "U+10CD7", "U+10CD8", "U+10CD9", "U+10CDA", "U+10CDB",
     "U+10CDC", "U+10CDD", "U+10CDE", "U+10CDF", "U+10CE0", "U+10CE1", "U+10CE2", "U+10CE3",
     "U+10CE4", "U+10CE5", "U+10CE6", "U+10CE7", "U+10CE8", "U+10CE9", "U+10CEA", "U+10CEB",
     "U+10CEC", "U+10CED", "U+10CEE", "U+10CEF", "U+10CF0", "U+10CF1", "U+10CF2", "U+10D70",
     "U+10D71", "U+10D72", "U+10D73", "U+10D74", "U+10D75", "U+10D76", "U+10D77", "U+10D78",
     "U+10D79", "U+10D7A", "U+10D7B", "U+10D7C", "U+10D7D", "U+10D7E", "U+10D7F", "U+10D80",
     "U+10D81", "U+10D82", "U+10D83", "U+10D84", "U+10D85", "U+118C0", "U+118C1", "U+118C2",
     "U+118C3", "U+118C4", "U+118C5", "U+118C6", "U+118C7", "U+118C8", "U+118C9", "U+118CA",
     "U+118CB", "U+118CC", "U+118CD", "U+118CE", "U+118CF", "U+118D0", "U+118D1", "U+118D2",
     "U+118D3", "U+118D4", "U+118D5", "U+118D6", "U+118D7", "U+118D8", "U+118D9", "U+118DA",
     "U+118DB", "U+118DC", "U+118DD", "U+118DE", "U+118DF", "U+16E60", "U+16E61", "U+16E62",
     "U+16E63", "U+16E64", "U+16E65", "U+16E66", "U+16E67", "U+16E68", "U+16E69", "U+16E6A",
     "U+16E6B", "U+16E6C", "U+16E6D", "U+16E6E", "U+16E6F", "U+16E70", "U+16E71", "U+16E72",
     "U+16E73", "U+16E74", "U+16E75", "U+16E76", "U+16E77", "U+16E78", "U+16E79", "U+16E7A",
     "U+16E7B", "U+16E7C", "U+16E7D", "U+16E7E", "U+16E7F", "U+16EBB", "U+16EBC", "U+16EBD",
     "U+16EBE", "U+16EBF", "U+16EC0", "U+16EC1", "U+16EC2", "U+16EC3", "U+16EC4", "U+16EC5",
     "U+16EC6", "U+16EC7", "U+16EC8", "U+16EC9", "U+16ECA", "U+16ECB", "U+16ECC", "U+16ECD",
     "U+16ECE", "U+16ECF", "U+16ED0", "U+16ED1", "U+16ED2", "U+16ED3", "U+1E922", "U+1E923",
     "U+1E924", "U+1E925", "U+1E926", "U+1E927", "U+1E928", "U+1E929", "U+1E92A", "U+1E92B",
     "U+1E92C", "U+1E92D", "U+1E92E", "U+1E92F", "U+1E930", "U+1E931", "U+1E932", "U+1E933",
     "U+1E934", "U+1E935", "U+1E936", "U+1E937", "U+1E938", "U+1E939", "U+1E93A", "U+1E93B",
     "U+1E93C", "U+1E93D", "U+1E93E", "U+1E93F", "U+1E940", "U+1E941", "U+1E942", "U+1E943">>

\* The characters with the property Case_Ignorable: they are skipped when
\* the context of a capital sigma is examined.
CaseIgnorable ==
    {"'", ".", ":", "^", "U+0060", "U+00A8", "U+00AD", "U+00AF", "U+00B4", "U+00B7", "U+00B8",
     "U+02B0", "U+02B1", "U+02B2", "U+02B3", "U+02B4", "U+02B5", "U+02B6", "U+02B7", "U+02B8",
     "U+02B9", "U+02BA", "U+02BB", "U+02BC", "U+02BD", "U+02BE", "U+02BF", "U+02C0", "U+02C1",
     "U+02C2", "U+02C3", "U+02C4", "U+02C5", "U+02C6", "U+02C7", "U+02C8", "U+02C9", "U+02CA",
     "U+02CB", "U+02CC", "U+02CD", "U+02CE", "U+02CF", "U+02D0", "U+02D1", "U+02D2", "U+02D3",
     "U+02D4", "U+02D5", "U+02D6", "U+02D7", "U+02D8", "U+02D9", "U+02DA", "U+02DB", "U+02DC",
     "U+02DD", "U+02DE", "U+02DF", "U+02E0", "U+02E1", "U+02E2", "U+02E3", "U+02E4", "U+02E5",
     "U+02E6", "U+02E7", "U+02E8", "U+02E9", "U+02EA", "U+02EB", "U+02EC", "U+02ED", "U+02EE",
     "U+02EF", "U+02F0", "U+02F1", "U+02F2", "U+02F3", "U+02F4", "U+02F5", "U+02F6", "U+02F7",
     "U+02F8", "U+02F9", "U+02FA", "U+02FB", "U+02FC", "U+02FD", "U+02FE", "U+02FF", "U+0300",
     "U+0301", "U+0302", "U+0303", "U+0304", "U+0305", "U+0306", "U+0307", "U+0308", "U+0309",
     "U+030A", "U+030B", "U+030C", "U+030D", "U+030E", "U+030F", "U+0310", "U+0311", "U+0312",
     "U+0313", "U+0314", "U+0315", "U+0316", "U+0317", "U+0318", "U+0319", "U+031A", "U+031B",
     "U+031C", "U+031D", "U+031E", "U+031F", "U+0320", "U+0321", "U+0322", "U+0323", "U+0324",
     "U+0325", "U+0326", "U+0327", "U+0328", "U+0329", "U+032A", "U+032B", "U+032C", "U+032D",
     "U+032E", "U+032F", "U+0330", "U+0331", "U+0332", "U+0333", "U+0334", "U+0335", "U+0336",
     "U+0337", "U+0338", "U+0339", "U+033A", "U+033B", "U+033C", "U+033D", "U+033E", "U+033F",
     "U+0340", "U+0341", "U+0342", "U+0343", "U+0344", "U+0345", "U+0346", "U+0347", "U+0348",
     "U+0349", "U+034A", "U+034B", "U+034C", "U+034D", "U+034E", "U+034F", "U+0350", "U+0351",
     "U+0352", "U+0353", "U+0354", "U+0355", "U+0356", "U+0357", "U+0358", "U+0359", "U+035A",
     "U+035B", "U+035C", "U+035D", "U+035E", "U+035F", "U+0360", "U+0361", "U+0362", "U+0363",
     "U+0364", "U+0365", "U+0366", "U+0367", "U+0368", "U+0369", "U+036A", "U+036B", "U+036C",
     "U+036D", "U+036E", "U+036F", "U+0374", "U+0375", "U+037A", "U+0384", "U+0385", "U+0387",
     "U+0483", "U+0484", "U+0485", "U+0486", "U+0487", "U+0488", "U+0489", "U+0559", "U+055F",
     "U+0591", "U+0592", "U+0593", "U+0594", "U+0595", "U+0596", "U+0597", "U+0598", "U+0599",
     "U+059A", "U+059B", "U+059C", "U+059D", "U+059E", "U+059F", "U+05A0", "U+05A1", "U+05A2",
     "U+05A3", "U+05A4", "U+05A5", "U+05A6", "U+05A7", "U+05A8", "U+05A9", "U+05AA", "U+05AB",
     "U+05AC", "U+05AD", "U+05AE", "U+05AF", "U+05B0", "U+05B1", "U+05B2", "U+05B3", "U+05B4",
     "U+05B5", "U+05B6", "U+05B7", "U+05B8", "U+05B9", "U+05BA", "U+05BB", "U+05BC", "U+05BD",
     "U+05BF", "U+05C1", "U+05C2", "U+05C4", "U+05C5", "U+05C7", "U+05F4", "U+0600", "U+0601",
     "U+0602", "U+0603", "U+0604", "U+0605", "U+0610", "U+0611", "U+0612", "U+0613", "U+0614",
     "U+0615", "U+0616", "U+0617", "U+0618", "U+0619", "U+061A", "U+061C", "U+0640", "U+064B",
     "U+064C", "U+064D", "U+064E", "U+064F", "U+0650", "U+0651", "U+0652", "U+0653", "U+0654",
     "U+0655", "U+0656", "U+0657", "U+0658", "U+0659", "U+065A", "U+065B", "U+065C", "U+065D",
     "U+065E", "U+065F", "U+0670", "U+06D6", "U+06D7", "U+06D8", "U+06D9", "U+06DA", "U+06DB",
     "U+06DC", "U+06DD", "U+06DF", "U+06E0", "U+06E1", "U+06E2", "U+06E3", "U+06E4", "U+06E5",
     "U+06E6", "U+06E7", "U+06E8", "U+06EA", "U+06EB", "U+06EC", "U+06ED", "U+070F", "U+0711",
     "U+0730", "U+0731", "U+0732", "U+0733", "U+0734", "U+0735", "U+0736", "U+0737", "U+0738",
     "U+0739", "U+073A", "U+073B", "U+073C", "U+073D", "U+073E", "U+073F", "U+0740", "U+0741",
     "U+0742", "U+0743", "U+0744", "U+0745", "U+0746", "U+0747", "U+0748", "U+0749", "U+074A",
     "U+07A6", "U+07A7", "U+07A8", "U+07A9", "U+07AA", "U+07AB", "U+07AC", "U+07AD", "U+07AE",
     "U+07AF", "U+07B0", "U+07EB", "U+07EC", "U+07ED", "U+07EE", "U+07EF", "U+07F0", "U+07F1",
     "U+07F2", "U+07F3", "U+07F4", "U+07F5", "U+07FA", "U+07FD", "U+0816", "U+0817", "U+0818",
     "U+0819", "U+081A", "U+081B", "U+081C", "U+081D", "U+081E", "U+081F", "U+0820", "U+0821",
     "U+0822", "U+0823", "U+0824", "U+0825", "U+0826", "U+0827", "U+0828", "U+0829", "U+082A",
     "U+082B", "U+082C", "U+082D", "U+0859", "U+085A", "U+085B", "U+0888", "U+0890", "U+0891",
     "U+0897", "U+0898", "U+0899", "U+089A", "U+089B", "U+089C", "U+089D", "U+089E", "U+089F",
     "U+08C9", "U+08CA", "U+08CB", "U+08CC", "U+08CD", "U+08CE", "U+08CF", "U+08D0", "U+08D1",
     "U+08D2", "U+08D3", "U+08D4", "U+08D5", "U+08D6", "U+08D7", "U+08D8", "U+08D9", "U+08DA",
     "U+08DB", "U+08DC", "U+08DD", "U+08DE", "U+08DF", "U+08E0", "U+08E1", "U+08E2", "U+08E3",
     "U+08E4", "U+08E5", "U+08E6", "U+08E7", "U+08E8", "U+08E9", "U+08EA", "U+08EB", "U+08EC",
     "U+08ED", "U+08EE", "U+08EF", "U+08F0", "U+08F1", "U+08F2", "U+08F3", "U+08F4", "U+08F5",
     "U+08F6", "U+08F7", "U+08F8", "U+08F9", "U+08FA", "U+08FB", "U+08FC", "U+08FD", "U+08FE",
     "U+08FF", "U+0900", "U+0901", "U+0902", "U+093A", "U+093C", "U+0941", "U+0942", "U+0943",
     "U+0944", "U+0945", "U+0946", "U+0947", "U+0948", "U+094D", "U+0951", "U+0952", "U+0953",
     "U+0954", "U+0955", "U+0956", "U+0957", "U+0962", "U+0963", "U+0971", "U+0981", "U+09BC",
     "U+09C1", "U+09C2", "U+09C3", "U+09C4", "U+09CD", "U+09E2", "U+09E3", "U+09FE", "U+0A01",
     "U+0A02", "U+0A3C", "U+0A41", "U+0A42", "U+0A47", "U+0A48", "U+0A4B", "U+0A4C", "U+0A4D",
     "U+0A51", "U+0A70", "U+0A71", "U+0A75", "U+0A81", "U+0A82", "U+0ABC", "U+0AC1", "U+0AC2",
     "U+0AC3", "U+0AC4", "U+0AC5", "U+0AC7", "U+0AC8", "U+0ACD", "U+0AE2", "U+0AE3", "U+0AFA",
     "U+0AFB", "U+0AFC", "U+0AFD", "U+0AFE", "U+0AFF", "U+0B01", "U+0B3C", "U+0B3F", "U+0B41",
     "U+0B42", "U+0B43", "U+0B44", "U+0B4D", "U+0B55", "U+0B56", "U+0B62", "U+0B63", "U+0B82",
     "U+0BC0", "U+0BCD", "U+0C00", "U+0C04", "U+0C3C", "U+0C3E", "U+0C3F", "U+0C40", "U+0C46",
     "U+0C47", "U+0C48", "U+0C4A", "U+0C4B", "U+0C4C", "U+0C4D", "U+0C55", "U+0C56", "U+0C62",
     "U+0C63", "U+0C81", "U+0CBC", "U+0CBF", "U+0CC6", "U+0CCC", "U+0CCD", "U+0CE2", "U+0CE3",
     "U+0D00", "U+0D01", "U+0D3B", "U+0D3C", "U+0D41", "U+0D42", "U+0D43", "U+0D44", "U+0D4D",
     "U+0D62", "U+0D63", "U+0D81", "U+0DCA", "U+0DD2", "U+0DD3", "U+0DD4", "U+0DD6", "U+0E31",
     "U+0E34", "U+0E35", "U+0E36", "U+0E37", "U+0E38", "U+0E39", "U+0E3A", "U+0E46", "U+0E47",
     "U+0E48", "U+0E49", "U+0E4A", "U+0E4B", "U+0E4C", "U+0E4D", "U+0E4E", "U+0EB1", "U+0EB4",
     "U+0EB5", "U+0EB6", "U+0EB7", "U+0EB8", "U+0EB9", "U+0EBA", "U+0EBB", "U+0EBC", "U+0EC6",
     "U+0EC8", "U+0EC9", "U+0ECA", "U+0ECB", "U+0ECC", "U+0ECD", "U+0ECE", "U+0F18", "U+0F19",
     "U+0F35", "U+0F37", "U+0F39", "U+0F71", "U+0F72", "U+0F73", "U+0F74", "U+0F75", "U+0F76",
     "U+0F77", "U+0F78", "U+0F79", "U+0F7A", "U+0F7B", "U+0F7C", "U+0F7D", "U+0F7E", "U+0F80",
     "U+0F81", "U+0F82", "U+0F83", "U+0F84", "U+0F86", "U+0F87", "U+0F8D", "U+0F8E", "U+0F8F",
     "U+0F90", "U+0F91", "U+0F92", "U+0F93", "U+0F94", "U+0F95", "U+0F96", "U+0F97", "U+0F99",
     "U+0F9A", "U+0F9B", "U+0F9C", "U+0F9D", "U+0F9E", "U+0F9F", "U+0FA0", "U+0FA1", "U+0FA2",
     "U+0FA3", "U+0FA4", "U+0FA5", "U+0FA6", "U+0FA7", "U+0FA8", "U+0FA9", "U+0FAA", "U+0FAB",
     "U+0FAC", "U+0FAD", "U+0FAE", "U+0FAF", "U+0FB0", "U+0FB1", "U+0FB2", "U+0FB3", "U+0FB4",
     "U+0FB5", "U+0FB6", "U+0FB7", "U+0FB8", "U+0FB9", "U+0FBA", "U+0FBB", "U+0FBC", "U+0FC6",
     "U+102D", "U+102E", "U+102F", "U+1030", "U+1032", "U+1033", "U+1034", "U+1035", "U+1036",
     "U+1037", "U+1039", "U+103A", "U+103D", "U+103E", "U+1058", "U+1059", "U+105E", "U+105F",
     "U+1060", "U+1071", "U+1072", "U+1073", "U+1074", "U+1082", "U+1085", "U+1086", "U+108D",
     "U+109D", "U+10FC", "U+135D", "U+135E", "U+135F", "U+1712", "U+1713", "U+1714", "U+1732",
     "U+1733", "U+1752", "U+1753", "U+1772", "U+1773", "U+17B4", "U+17B5", "U+17B7", "U+17B8",
     "U+17B9", "U+17BA", "U+17BB", "U+17BC", "U+17BD", "U+17C6", "U+17C9", "U+17CA", "U+17CB",
     "U+17CC", "U+17CD", "U+17CE", "U+17CF", "U+17D0", "U+17D1", "U+17D2", "U+17D3", "U+17D7",
     "U+17DD", "U+180B", "U+180C", "U+180D", "U+180E", "U+180F", "U+1843", "U+1885", "U+1886",
     "U+18A9", "U+1920", "U+1921", "U+1922", "U+1927", "U+1928", "U+1932", "U+1939", "U+193A",
     "U+193B", "U+1A17", "U+1A18", "U+1A1B", "U+1A56", "U+1A58", "U+1A59", "U+1A5A", "U+1A5B",
     "U+1A5C", "U+1A5D", "U+1A5E", "U+1A60", "U+1A62", "U+1A65", "U+1A66", "U+1A67", "U+1A68",
     "U+1A69", "U+1A6A", "U+1A6B", "U+1A6C", "U+1A73", "U+1A74", "U+1A75", "U+1A76", "U+1A77",
     "U+1A78", "U+1A79", "U+1A7A", "U+1A7B", "U+1A7C", "U+1A7F", "U+1AA7", "U+1AB0", "U+1AB1",
     "U+1AB2", "U+1AB3", "U+1AB4", "U+1AB5", "U+1AB6", "U+1AB7", "U+1AB8", "U+1AB9", "U+1ABA",
     "U+1ABB", "U+1ABC", "U+1ABD", "U+1ABE", "U+1ABF", "U+1AC0", "U+1AC1", "U+1AC2", "U+1AC3",
     "U+1AC4", "U+1AC5", "U+1AC6", "U+1AC7", "U+1AC8", "U+1AC9", "U+1ACA", "U+1ACB", "U+1ACC",
     "U+1ACD", "U+1ACE", "U+1ACF", "U+1AD0", "U+1AD1", "U+1AD2", "U+1AD3", "U+1AD4", "U+1AD5",
     "U+1AD6", "U+1AD7", "U+1AD8", "U+1AD9", "U+1ADA", "U+1ADB", "U+1ADC", "U+1ADD", "U+1AE0",
     "U+1AE1", "U+1AE2", "U+1AE3", "U+1AE4", "U+1AE5", "U+1AE6", "U+1AE7", "U+1AE8", "U+1AE9",
     "U+1AEA", "U+1AEB", "U+1B00", "U+1B01", "U+1B02", "U+1B03", "U+1B34", "U+1B36", "U+1B37",
     "U+1B38", "U+1B39", "U+1B3A", "U+1B3C", "U+1B42", "U+1B6B", "U+1B6C", "U+1B6D", "U+1B6E",
     "U+1B6F", "U+1B70", "U+1B71", "U+1B72", "U+1B73", "U+1B80", "U+1B81", "U+1BA2", "U+1BA3",
     "U+1BA4", "U+1BA5", "U+1BA8", "U+1BA9", "U+1BAB", "U+1BAC", "U+1BAD", "U+1BE6", "U+1BE8",
     "U+1BE9", "U+1BED", "U+1BEF", "U+1BF0", "U+1BF1", "U+1C2C", "U+1C2D", "U+1C2E", "U+1C2F",
     "U+1C30", "U+1C31", "U+1C32", "U+1C33", "U+1C36", "U+1C37", "U+1C78", "U+1C79", "U+1C7A",
     "U+1C7B", "U+1C7C", "U+1C7D", "U+1CD0", "U+1CD1", "U+1CD2", "U+1CD4", "U+1CD5", "U+1CD6",
     "U+1CD7", "U+1CD8", "U+1CD9", "U+1CDA", "U+1CDB", "U+1CDC", "U+1CDD", "U+1CDE", "U+1CDF",
     "U+1CE0", "U+1CE2", "U+1CE3", "U+1CE4", "U+1CE5", "U+1CE6", "U+1CE7", "U+1CE8", "U+1CED",
     "U+1CF4", "U+1CF8", "U+1CF9", "U+1D2C", "U+1D2D", "U+1D2E", "U+1D2F", "U+1D30", "U+1D31",
     "U+1D32", "U+1D33", "U+1D34", "U+1D35", "U+1D36", "U+1D37", "U+1D38", "U+1D39", "U+1D3A",
     "U+1D3B", "U+1D3C", "U+1D3D", "U+1D3E", "U+1D3F", "U+1D40", "U+1D41", "U+1D42", "U+1D43",
     "U+1D44", "U+1D45", "U+1D46", "U+1D47", "U+1D48", "U+1D49", "U+1D4A", "U+1D4B", "U+1D4C",
     "U+1D4D", "U+1D4E", "U+1D4F", "U+1D50", "U+1D51", "U+1D52", "U+1D53", "U+1D54", "U+1D55",
     "U+1D56", "U+1D57", "U+1D58", "U+1D59", "U+1D5A", "U+1D5B", "U+1D5C", "U+1D5D", "U+1D5E",
     "U+1D5F", "U+1D60", "U+1D61", "U+1D62", "U+1D63", "U+1D64", "U+1D65", "U+1D66", "U+1D67",
     "U+1D68", "U+1D69", "U+1D6A", "U+1D78", "U+1D9B", "U+1D9C", "U+1D9D", "U+1D9E", "U+1D9F",
     "U+1DA0", "U+1DA1", "U+1DA2", "U+1DA3", "U+1DA4", "U+1DA5", "U+1DA6", "U+1DA7", "U+1DA8",
     "U+1DA9", "U+1DAA", "U+1DAB", "U+1DAC", "U+1DAD", "U+1DAE", "U+1DAF", "U+1DB0", "U+1DB1",
     "U+1DB2", "U+1DB3", "U+1DB4", "U+1DB5", "U+1DB6", "U+1DB7", "U+1DB8", "U+1DB9", "U+1DBA",
     "U+1DBB", "U+1DBC", "U+1DBD", "U+1DBE", "U+1DBF", "U+1DC0", "U+1DC1", "U+1DC2", "U+1DC3",
     "U+1DC4", "U+1DC5", "U+1DC6", "U+1DC7", "U+1DC8", "U+1DC9", "U+1DCA", "U+1DCB", "U+1DCC",
     "U+1DCD", "U+1DCE", "U+1DCF", "U+1DD0", "U+1DD1", "U+1DD2", "U+1DD3", "U+1DD4", "U+1DD5",
     "U+1DD6", "U+1DD7", "U+1DD8", "U+1DD9", "U+1DDA", "U+1DDB", "U+1DDC", "U+1DDD", "U+1DDE",
     "U+1DDF", "U+1DE0", "U+1DE1", "U+1DE2", "U+1DE3", "U+1DE4", "U+1DE5", "U+1DE6", "U+1DE7",
     "U+1DE8", "U+1DE9", "U+1DEA", "U+1DEB", "U+1DEC", "U+1DED", "U+1DEE", "U+1DEF", "U+1DF0",
     "U+1DF1", "U+1DF2", "U+1DF3", "U+1DF4", "U+1DF5", "U+1DF6", "U+1DF7", "U+1DF8", "U+1DF9",
     "U+1DFA", "U+1DFB", "U+1DFC", "U+1DFD", "U+1DFE", "U+1DFF", "U+1FBD", "U+1FBF", "U+1FC0",
     "U+1FC1", "U+1FCD", "U+1FCE", "U+1FCF", "U+1FDD", "U+1FDE", "U+1FDF", "U+1FED", "U+1FEE",
     "U+1FEF", "U+1FFD", "U+1FFE", "U+200B", "U+200C", "U+200D", "U+200E", "U+200F", "U+2018",
     "U+2019", "U+2024", "U+2027", "U+202A", "U+202B", "U+202C", "U+202D", "U+202E", "U+2060",
     "U+2061", "U+2062", "U+2063", "U+2064", "U+2066", "U+2067", "U+2068", "U+2069", "U+206A",
     "U+206B", "U+206C", "U+206D", "U+206E", "U+206F", "U+2071", "U+207F", "U+2090", "U+2091",
     "U+2092", "U+2093", "U+2094", "U+2095", "U+2096", "U+2097", "U+2098", "U+2099", "U+209A",
     "U+209B", "U+209C", "U+20D0", "U+20D1", "U+20D2", "U+20D3", "U+20D4", "U+20D5", "U+20D6",
     "U+20D7", "U+20D8", "U+20D9", "U+20DA", "U+20DB", "U+20DC", "U+20DD", "U+20DE", "U+20DF",
     "U+20E0", "U+20E1", "U+20E2", "U+20E3", "U+20E4", "U+20E5", "U+20E6", "U+20E7", "U+20E8",
     "U+20E9", "U+20EA", "U+20EB", "U+20EC", "U+20ED", "U+20EE", "U+20EF", "U+20F0", "U+2C7C",
     "U+2C7D", "U+2CEF", "U+2CF0", "U+2CF1", "U+2D6F", "U+2D7F", "U+2DE0", "U+2DE1", "U+2DE2",
     "U+2DE3", "U+2DE4", "U+2DE5", "U+2DE6", "U+2DE7", "U+2DE8", "U+2DE9", "U+2DEA", "U+2DEB",
     "U+2DEC", "U+2DED", "U+2DEE", "U+2DEF", "U+2DF0", "U+2DF1", "U+2DF2", "U+2DF3", "U+2DF4",
     "U+2DF5", "U+2DF6", "U+2DF7", "U+2DF8", "U+2DF9", "U+2DFA", "U+2DFB", "U+2DFC", "U+2DFD",
     "U+2DFE", "U+2DFF", "U+2E2F", "U+3005", "U+302A", "U+302B", "U+302C", "U+302D", "U+3031",
     "U+3032", "U+3033", "U+3034", "U+3035", "U+303B", "U+3099", "U+309A", "U+309B", "U+309C",
     "U+309D", "U+309E", "U+30FC", "U+30FD", "U+30FE", "U+A015", "U+A4F8", "U+A4F9", "U+A4FA",
     "U+A4FB", "U+A4FC", "U+A4FD", "U+A60C", "U+A66F", "U+A670", "U+A671", "U+A672", "U+A674",
     "U+A675", "U+A676", "U+A677", "U+A678", "U+A679", "U+A67A", "U+A67B", "U+A67C", "U+A67D",
     "U+A67F", "U+A69C", "U+A69D", "U+A69E", "U+A69F", "U+A6F0", "U+A6F1", "U+A700", "U+A701",
     "U+A702", "U+A703", "U+A704", "U+A705", "U+A706", "U+A707", "U+A708", "U+A709", "U+A70A",
     "U+A70B", "U+A70C", "U+A70D", "U+A70E", "U+A70F", "U+A710", "U+A711", "U+A712", "U+A713",
     "U+A714", "U+A715", "U+A716", "U+A717", "U+A718", "U+A719", "U+A71A", "U+A71B", "U+A71C",
     "U+A71D", "U+A71E", "U+A71F", "U+A720", "U+A721", "U+A770", "U+A788", "U+A789", "U+A78A",
     "U+A7F1", "U+A7F2", "U+A7F3", "U+A7F4", "U+A7F8", "U+A7F9", "U+A802", "U+A806", "U+A80B",
     "U+A825", "U+A826", "U+A82C", "U+A8C4", "U+A8C5", "U+A8E0", "U+A8E1", "U+A8E2", "U+A8E3",
     "U+A8E4", "U+A8E5", "U+A8E6", "U+A8E7", "U+A8E8", "U+A8E9", "U+A8EA", "U+A8EB", "U+A8EC",
     "U+A8ED", "U+A8EE", "U+A8EF", "U+A8F0", "U+A8F1", "U+A8FF", "U+A926", "U+A927", "U+A928",
     "U+A929", "U+A92A", "U+A92B", "U+A92C", "U+A92D", "U+A947", "U+A948", "U+A949", "U+A94A",
     "U+A94B", "U+A94C", "U+A94D", "U+A94E", "U+A94F", "U+A950", "U+A951", "U+A980", "U+A981",
     "U+A982", "U+A9B3", "U+A9B6", "U+A9B7", "U+A9B8", "U+A9B9", "U+A9BC", "U+A9BD", "U+A9CF",
     "U+A9E5", "U+A9E6", "U+AA29", "U+AA2A", "U+AA2B", "U+AA2C", "U+AA2D", "U+AA2E", "U+AA31",
     "U+AA32", "U+AA35", "U+AA36", "U+AA43", "U+AA4C", "U+AA70", "U+AA7C", "U+AAB0", "U+AAB2",
     "U+AAB3", "U+AAB4", "U+AAB7", "U+AAB8", "U+AABE", "U+AABF", "U+AAC1", "U+AADD", "U+AAEC",
     "U+AAED", "U+AAF3", "U+AAF4", "U+AAF6", "U+AB5B", "U+AB5C", "U+AB5D", "U+AB5E", "U+AB5F",
     "U+AB69", "U+AB6A", "U+AB6B", "U+ABE5", "U+ABE8", "U+ABED", "U+FB1E", "U+FBB2", "U+FBB3",
     "U+FBB4", "U+FBB5", "U+FBB6", "U+FBB7", "U+FBB8", "U+FBB9", "U+FBBA", "U+FBBB", "U+FBBC",
     "U+FBBD", "U+FBBE", "U+FBBF", "U+FBC0", "U+FBC1", "U+FBC2", "U+FE00", "U+FE01", "U+FE02",
     "U+FE03", "U+FE04", "U+FE05", "U+FE06", "U+FE07", "U+FE08", "U+FE09", "U+FE0A", "U+FE0B",
     "U+FE0C", "U+FE0D", "U+FE0E", "U+FE0F", "U+FE13", "U+FE20", "U+FE21", "U+FE22", "U+FE23",
     "U+FE24", "U+FE25", "U+FE26", "U+FE27", "U+FE28", "U+FE29", "U+FE2A", "U+FE2B", "U+FE2C",
     "U+FE2D", "U+FE2E", "U+FE2F", "U+FE52", "U+FE55", "U+FEFF", "U+FF07", "U+FF0E", "U+FF1A",
     "U+FF3E", "U+FF40", "U+FF70", "U+FF9E", "U+FF9F", "U+FFE3", "U+FFF9", "U+FFFA", "U+FFFB",
     "U+101FD", "U+102E0", "U+10376", "U+10377", "U+10378", "U+10379", "U+1037A", "U+10780",
     "U+10781", "U+10782", "U+10783", "U+10784", "U+10785", "U+10787", "U+10788", "U+10789",
     "U+1078A", "U+1078B", "U+1078C", "U+1078D", "U+1078E", "U+1078F", "U+10790", "U+10791",
     "U+10792", "U+10793", "U+10794", "U+10795", "U+10796", "U+10797", "U+10798", "U+10799",
     "U+1079A", "U+1079B", "U+1079C", "U+1079D", "U+1079E", "U+1079F", "U+107A0", "U+107A1",
     "U+107A2", "U+107A3", "U+107A4", "U+107A5", "U+107A6", "U+107A7", "U+107A8", "U+107A9",
     "U+107AA", "U+107AB", "U+107AC", "U+107AD", "U+107AE", "U+107AF", "U+107B0", "U+107B2",
     "U+107B3", "U+107B4", "U+107B5", "U+107B6", "U+107B7", "U+107B8", "U+107B9", "U+107BA",
     "U+10A01", "U+10A02", "U+10A03", "U+10A05", "U+10A06", "U+10A0C", "U+10A0D", "U+10A0E",
     "U+10A0F", "U+10A38", "U+10A39", "U+10A3A", "U+10A3F", "U+10AE5", "U+10AE6", "U+10D24",
     "U+10D25", "U+10D26", "U+10D27", "U+10D4E", "U+10D69", "U+10D6A", "U+10D6B", "U+10D6C",
     "U+10D6D", "U+10D6F", "U+10EAB", "U+10EAC", "U+10EC5", "U+10EFA", "U+10EFB", "U+10EFC",
     "U+10EFD", "U+10EFE", "U+10EFF", "U+10F46", "U+10F47", "U+10F48", "U+10F49", "U+10F4A",
     "U+10F4B", "U+10F4C", "U+10F4D", "U+10F4E", "U+10F4F", "U+10F50", "U+10F82", "U+10F83",
     "U+10F84", "U+10F85", "U+11001", "U+11038", "U+11039", "U+1103A", "U+1103B", "U+1103C",
     "U+1103D", "U+1103E", "U+1103F", "U+11040", "U+11041", "U+11042", "U+11043", "U+11044",
     "U+11045", "U+11046", "U+11070", "U+11073", "U+11074", "U+1107F", "U+11080", "U+11081",
     "U+110B3", "U+110B4", "U+110B5", "U+110B6", "U+110B9", "U+110BA", "U+110BD", "U+110C2",
     "U+110CD", "U+11100", "U+11101", "U+11102", "U+11127", "U+11128", "U+11129", "U+1112A",
     "U+1112B", "U+1112D", "U+1112E", "U+1112F", "U+11130", "U+11131", "U+11132", "U+11133",
     "U+11134", "U+11173", "U+11180", "U+11181", "U+111B6", "U+111B7", "U+111B8", "U+111B9",
     "U+111BA", "U+111BB", "U+111BC", "U+111BD", "U+111BE", "U+111C9", "U+111CA", "U+111CB",
     "U+111CC", "U+111CF", "U+1122F", "U+11230", "U+11231", "U+11234", "U+11236", "U+11237",
     "U+1123E", "U+11241", "U+112DF", "U+112E3", "U+112E4", "U+112E5", "U+112E6", "U+112E7",
     "U+112E8", "U+112E9", "U+112EA", "U+11300", "U+11301", "U+1133B", "U+1133C", "U+11340",
     "U+11366", "U+11367", "U+11368", "U+11369", "U+1136A", "U+1136B", "U+1136C", "U+11370",
     "U+11371", "U+11372", "U+11373", "U+11374", "U+113BB", "U+113BC", "U+113BD", "U+113BE",
     "U+113BF", "U+113C0", "U+113CE", "U+113D0", "U+113D2", "U+113E1", "U+113E2", "U+11438",
     "U+11439", "U+1143A", "U+1143B", "U+1143C", "U+1143D", "U+1143E", "U+1143F", "U+11442",
     "U+11443", "U+11444", "U+11446", "U+1145E", "U+114B3", "U+114B4", "U+114B5", "U+114B6",
     "U+114B7", "U+114B8", "U+114BA", "U+114BF", "U+114C0", "U+114C2", "U+114C3", "U+115B2",
     "U+115B3", "U+115B4", "U+115B5", "U+115BC", "U+115BD", "U+115BF", "U+115C0", "U+115DC",
     "U+115DD", "U+11633", "U+11634", "U+11635", "U+11636", "U+11637", "U+11638", "U+11639",
     "U+1163A", "U+1163D", "U+1163F", "U+11640", "U+116AB", "U+116AD", "U+116B0", "U+116B1",
     "U+116B2", "U+116B3", "U+116B4", "U+116B5", "U+116B7", "U+1171D", "U+1171F", "U+11722",
     "U+11723", "U+11724", "U+11725", "U+11727", "U+11728", "U+11729", "U+1172A", "U+1172B",
     "U+1182F", "U+11830", "U+11831", "U+11832", "U+11833", "U+11834", "U+11835", "U+11836",
     "U+11837", "U+11839", "U+1183A", "U+1193B", "U+1193C", "U+1193E", "U+11943", "U+119D4",
     "U+119D5", "U+119D6", "U+119D7", "U+119DA", "U+119DB", "U+119E0", "U+11A01", "U+11A02",
     "U+11A03", "U+11A04", "U+11A05", "U+11A06", "U+11A07", "U+11A08", "U+11A09", "U+11A0A",
     "U+11A33", "U+11A34", "U+11A35", "U+11A36", "U+11A37", "U+11A38", "U+11A3B", "U+11A3C",
     "U+11A3D", "U+11A3E", "U+11A47", "U+11A51", "U+11A52", "U+11A53", "U+11A54", "U+11A55",
     "U+11A56", "U+11A59", "U+11A5A", "U+11A5B", "U+11A8A", "U+11A8B", "U+11A8C", "U+11A8D",
     "U+11A8E", "U+11A8F", "U+11A90", "U+11A91", "U+11A92", "U+11A93", "U+11A94", "U+11A95",
     "U+11A96", "U+11A98", "U+11A99", "U+11B60", "U+11B62", "U+11B63", "U+11B64", "U+11B66",
     "U+11C30", "U+11C31", "U+11C32", "U+11C33", "U+11C34", "U+11C35", "U+11C36", "U+11C38",
     "U+11C39", "U+11C3A", "U+11C3B", "U+11C3C", "U+11C3D", "U+11C3F", "U+11C92", "U+11C93",
     "U+11C94", "U+11C95", "U+11C96", "U+11C97", "U+11C98", "U+11C99", "U+11C9A", "U+11C9B",
     "U+11C9C", "U+11C9D", "U+11C9E", "U+11C9F", "U+11CA0", "U+11CA1", "U+11CA2", "U+11CA3",
     "U+11CA4", "U+11CA5", "U+11CA6", "U+11CA7", "U+11CAA", "U+11CAB", "U+11CAC", "U+11CAD",
     "U+11CAE", "U+11CAF", "U+11CB0", "U+11CB2", "U+11CB3", "U+11CB5", "U+11CB6", "U+11D31",
     "U+11D32", "U+11D33", "U+11D34", "U+11D35", "U+11D36", "U+11D3A", "U+11D3C", "U+11D3D",
     "U+11D3F", "U+11D40", "U+11D41", "U+11D42", "U+11D43", "U+11D44", "U+11D45", "U+11D47",
     "U+11D90", "U+11D91", "U+11D95", "U+11D97", "U+11DD9", "U+11EF3", "U+11EF4", "U+11F00",
     "U+11F01", "U+11F36", "U+11F37", "U+11F38", "U+11F39", "U+11F3A", "U+11F40", "U+11F42",
     "U+11F5A", "U+13430", "U+13431", "U+13432", "U+13433", "U+13434", "U+13435", "U+13436",
     "U+13437", "U+13438", "U+13439", "U+1343A", "U+1343B", "U+1343C", "U+1343D", "U+1343E",
     "U+1343F", "U+13440", "U+13447", "U+13448", "U+13449", "U+1344A", "U+1344B", "U+1344C",
     "U+1344D", "U+1344E", "U+1344F", "U+13450", "U+13451", "U+13452", "U+13453", "U+13454",
     "U+13455", "U+1611E", "U+1611F", "U+16120", "U+16121", "U+16122", "U+16123", "U+16124",
     "U+16125", "U+16126", "U+16127", "U+16128", "U+16129", "U+1612D", "U+1612E", "U+1612F",
     "U+16AF0", "U+16AF1", "U+16AF2", "U+16AF3", "U+16AF4", "U+16B30", "U+16B31", "U+16B32",
     "U+16B33", "U+16B34", "U+16B35", "U+16B36", "U+16B40", "U+16B41", "U+16B42", "U+16B43",
     "U+16D40", "U+16D41", "U+16D42", "U+16D6B", "U+16D6C", "U+16F4F", "U+16F8F", "U+16F90",
     "U+16F91", "U+16F92", "U+16F93", "U+16F94", "U+16F95", "U+16F96", "U+16F97", "U+16F98",
     "U+16F99", "U+16F9A", "U+16F9B", "U+16F9C", "U+16F9D", "U+16F9E", "U+16F9F", "U+16FE0",
     "U+16FE1", "U+16FE3", "U+16FE4", "U+16FF2", "U+16FF3", "U+1AFF0", "U+1AFF1", "U+1AFF2",
     "U+1AFF3", "U+1AFF5", "U+1AFF6", "U+1AFF7", "U+1AFF8", "U+1AFF9", "U+1AFFA", "U+1AFFB",
     "U+1AFFD", "U+1AFFE", "U+1BC9D", "U+1BC9E", "U+1BCA0", "U+1BCA1", "U+1BCA2", "U+1BCA3",
     "U+1CF00", "U+1CF01", "U+1CF02", "U+1CF03", "U+1CF04", "U+1CF05", "U+1CF06", "U+1CF07",
     "U+1CF08", "U+1CF09", "U+1CF0A", "U+1CF0B", "U+1CF0C", "U+1CF0D", "U+1CF0E", "U+1CF0F",
     "U+1CF10", "U+1CF11", "U+1CF12", "U+1CF13", "U+1CF14", "U+1CF15", "U+1CF16", "U+1CF17",
     "U+1CF18", "U+1CF19", "U+1CF1A", "U+1CF1B", "U+1CF1C", "U+1CF1D", "U+1CF1E", "U+1CF1F",
     "U+1CF20", "U+1CF21", "U+1CF22", "U+1CF23", "U+1CF24", "U+1CF25", "U+1CF26", "U+1CF27",
     "U+1CF28", "U+1CF29", "U+1CF2A", "U+1CF2B", "U+1CF2C", "U+1CF2D", "U+1CF30", "U+1CF31",
     "U+1CF32", "U+1CF33", "U+1CF34", "U+1CF35", "U+1CF36", "U+1CF37", "U+1CF38", "U+1CF39",
     "U+1CF3A", "U+1CF3B", "U+1CF3C", "U+1CF3D", "U+1CF3E", "U+1CF3F", "U+1CF40", "U+1CF41",
     "U+1CF42", "U+1CF43", "U+1CF44", "U+1CF45", "U+1CF46", "U+1D167", "U+1D168", "U+1D169",
     "U+1D173", "U+1D174", "U+1D175", "U+1D176", "U+1D177", "U+1D178", "U+1D179", "U+1D17A",
     "U+1D17B", "U+1D17C", "U+1D17D", "U+1D17E", "U+1D17F", "U+1D180", "U+1D181", "U+1D182",
     "U+1D185", "U+1D186", "U+1D187", "U+1D188", "U+1D189", "U+1D18A", "U+1D18B", "U+1D1AA",
     "U+1D1AB", "U+1D1AC", "U+1D1AD", "U+1D242", "U+1D243", "U+1D244", "U+1DA00", "U+1DA01",
     "U+1DA02", "U+1DA03", "U+1DA04", "U+1DA05", "U+1DA06", "U+1DA07", "U+1DA08", "U+1DA09",
     "U+1DA0A", "U+1DA0B", "U+1DA0C", "U+1DA0D", "U+1DA0E", "U+1DA0F", "U+1DA10", "U+1DA11",
     "U+1DA12", "U+1DA13", "U+1DA14", "U+1DA15", "U+1DA16", "U+1DA17", "U+1DA18", "U+1DA19",
     "U+1DA1A", "U+1DA1B", "U+1DA1C", "U+1DA1D", "U+1DA1E", "U+1DA1F", "U+1DA20", "U+1DA21",
     "U+1DA22", "U+1DA23", "U+1DA24", "U+1DA25", "U+1DA26", "U+1DA27", "U+1DA28", "U+1DA29",
     "U+1DA2A", "U+1DA2B", "U+1DA2C", "U+1DA2D", "U+1DA2E", "U+1DA2F", "U+1DA30", "U+1DA31",
     "U+1DA32", "U+1DA33", "U+1DA34", "U+1DA35", "U+1DA36", "U+1DA3B", "U+1DA3C", "U+1DA3D",
     "U+1DA3E", "U+1DA3F", "U+1DA40", "U+1DA41", "U+1DA42", "U+1DA43", "U+1DA44", "U+1DA45",
     "U+1DA46", "U+1DA47", "U+1DA48", "U+1DA49", "U+1DA4A", "U+1DA4B", "U+1DA4C", "U+1DA4D",
     "U+1DA4E", "U+1DA4F", "U+1DA50", "U+1DA51", "U+1DA52", "U+1DA53", "U+1DA54", "U+1DA55",
     "U+1DA56", "U+1DA57", "U+1DA58", "U+1DA59", "U+1DA5A", "U+1DA5B", "U+1DA5C", "U+1DA5D",
     "U+1DA5E", "U+1DA5F", "U+1DA60", "U+1DA61", "U+1DA62", "U+1DA63", "U+1DA64", "U+1DA65",
     "U+1DA66", "U+1DA67", "U+1DA68", "U+1DA69", "U+1DA6A", "U+1DA6B", "U+1DA6C", "U+1DA75",
     "U+1DA84", "U+1DA9B", "U+1DA9C", "U+1DA9D", "U+1DA9E", "U+1DA9F", "U+1DAA1", "U+1DAA2",
     "U+1DAA3", "U+1DAA4", "U+1DAA5", "U+1DAA6", "U+1DAA7", "U+1DAA8", "U+1DAA9", "U+1DAAA",
     "U+1DAAB", "U+1DAAC", "U+1DAAD", "U+1DAAE", "U+1DAAF", "U+1E000", "U+1E001", "U+1E002",
     "U+1E003", "U+1E004", "U+1E005", "U+1E006", "U+1E008", "U+1E009", "U+1E00A", "U+1E00B",
     "U+1E00C", "U+1E00D", "U+1E00E", "U+1E00F", "U+1E010", "U+1E011", "U+1E012", "U+1E013",
     "U+1E014", "U+1E015", "U+1E016", "U+1E017", "U+1E018", "U+1E01B", "U+1E01C", "U+1E01D",
     "U+1E01E", "U+1E01F", "U+1E020", "U+1E021", "U+1E023", "U+1E024", "U+1E026", "U+1E027",
     "U+1E028", "U+1E029", "U+1E02A", "U+1E030", "U+1E031", "U+1E032", "U+1E033", "U+1E034",
     "U+1E035", "U+1E036", "U+1E037", "U+1E038", "U+1E039", "U+1E03A", "U+1E03B", "U+1E03C",
     "U+1E03D", "U+1E03E", "U+1E03F", "U+1E040", "U+1E041", "U+1E042", "U+1E043", "U+1E044",
     "U+1E045", "U+1E046", "U+1E047", "U+1E048", "U+1E049", "U+1E04A", "U+1E04B", "U+1E04C",
     "U+1E04D", "U+1E04E", "U+1E04F", "U+1E050", "U+1E051", "U+1E052", "U+1E053", "U+1E054",
     "U+1E055", "U+1E056", "U+1E057", "U+1E058", "U+1E059", "U+1E05A", "U+1E05B", "U+1E05C",
     "U+1E05D", "U+1E05E", "U+1E05F", "U+1E060", "U+1E061", "U+1E062", "U+1E063", "U+1E064",
     "U+1E065", "U+1E066", "U+1E067", "U+1E068", "U+1E069", "U+1E06A", "U+1E06B", "U+1E06C",
     "U+1E06D", "U+1E08F", "U+1E130", "U+1E131", "U+1E132", "U+1E133", "U+1E134", "U+1E135",
     "U+1E136", "U+1E137", "U+1E138", "U+1E139", "U+1E13A", "U+1E13B", "U+1E13C", "U+1E13D",
     "U+1E2AE", "U+1E2EC", "U+1E2ED", "U+1E2EE", "U+1E2EF", "U+1E4EB", "U+1E4EC", "U+1E4ED",
     "U+1E4EE", "U+1E4EF", "U+1E5EE", "U+1E5EF", "U+1E6E3", "U+1E6E6", "U+1E6EE", "U+1E6EF",
     "U+1E6F5", "U+1E6FF", "U+1E8D0", "U+1E8D1", "U+1E8D2", "U+1E8D3", "U+1E8D4", "U+1E8D5",
     "U+1E8D6", "U+1E944", "U+1E945", "U+1E946", "U+1E947", "U+1E948", "U+1E949", "U+1E94A",
     "U+1E94B", "U+1F3FB", "U+1F3FC", "U+1F3FD", "U+1F3FE", "U+1F3FF", "U+E0001", "U+E0020",
     "U+E0021", "U+E0022", "U+E0023", "U+E0024", "U+E0025", "U+E0026", "U+E0027", "U+E0028",
     "U+E0029", "U+E002A", "U+E002B", "U+E002C", "U+E002D", "U+E002E", "U+E002F", "U+E0030",
     "U+E0031", "U+E0032", "U+E0033", "U+E0034", "U+E0035", "U+E0036", "U+E0037", "U+E0038",
     "U+E0039", "U+E003A", "U+E003B", "U+E003C", "U+E003D", "U+E003E", "U+E003F", "U+E0040",
     "U+E0041", "U+E0042", "U+E0043", "U+E0044", "U+E0045", "U+E0046", "U+E0047", "U+E0048",
     "U+E0049", "U+E004A", "U+E004B", "U+E004C", "U+E004D", "U+E004E", "U+E004F", "U+E0050",
     "U+E0051", "U+E0052", "U+E0053", "U+E0054", "U+E0055", "U+E0056", "U+E0057", "U+E0058",
     "U+E0059", "U+E005A", "U+E005B", "U+E005C", "U+E005D", "U+E005E", "U+E005F", "U+E0060",
     "U+E0061", "U+E0062", "U+E0063", "U+E0064", "U+E0065", "U+E0066", "U+E0067", "U+E0068",
     "U+E0069", "U+E006A", "U+E006B", "U+E006C", "U+E006D", "U+E006E", "U+E006F", "U+E0070",
     "U+E0071", "U+E0072", "U+E0073", "U+E0074", "U+E0075", "U+E0076", "U+E0077", "U+E0078",
     "U+E0079", "U+E007A", "U+E007B", "U+E007C", "U+E007D", "U+E007E", "U+E007F", "U+E0100",
     "U+E0101", "U+E0102", "U+E0103", "U+E0104", "U+E0105", "U+E0106", "U+E0107", "U+E0108",
     "U+E0109", "U+E010A", "U+E010B", "U+E010C", "U+E010D", "U+E010E", "U+E010F", "U+E0110",
     "U+E0111", "U+E0112", "U+E0113", "U+E0114", "U+E0115", "U+E0116", "U+E0117", "U+E0118",
     "U+E0119", "U+E011A", "U+E011B", "U+E011C", "U+E011D", "U+E011E", "U+E011F", "U+E0120",
     "U+E0121", "U+E0122", "U+E0123", "U+E0124", "U+E0125", "U+E0126", "U+E0127", "U+E0128",
     "U+E0129", "U+E012A", "U+E012B", "U+E012C", "U+E012D", "U+E012E", "U+E012F", "U+E0130",
     "U+E0131", "U+E0132", "U+E0133", "U+E0134", "U+E0135", "U+E0136", "U+E0137", "U+E0138",
     "U+E0139", "U+E013A", "U+E013B", "U+E013C", "U+E013D", "U+E013E", "U+E013F", "U+E0140",
     "U+E0141", "U+E0142", "U+E0143", "U+E0144", "U+E0145", "U+E0146", "U+E0147", "U+E0148",
     "U+E0149", "U+E014A", "U+E014B", "U+E014C", "U+E014D", "U+E014E", "U+E014F", "U+E0150",
     "U+E0151", "U+E0152", "U+E0153", "U+E0154", "U+E0155", "U+E0156", "U+E0157", "U+E0158",
     "U+E0159", "U+E015A", "U+E015B", "U+E015C", "U+E015D", "U+E015E", "U+E015F", "U+E0160",
     "U+E0161", "U+E0162", "U+E0163", "U+E0164", "U+E0165", "U+E0166", "U+E0167", "U+E0168",
     "U+E0169", "U+E016A", "U+E016B", "U+E016C", "U+E016D", "U+E016E", "U+E016F", "U+E0170",
     "U+E0171", "U+E0172", "U+E0173", "U+E0174", "U+E0175", "U+E0176", "U+E0177", "U+E0178",
     "U+E0179", "U+E017A", "U+E017B", "U+E017C", "U+E017D", "U+E017E", "U+E017F", "U+E0180",
     "U+E0181", "U+E0182", "U+E0183", "U+E0184", "U+E0185", "U+E0186", "U+E0187", "U+E0188",
     "U+E0189", "U+E018A", "U+E018B", "U+E018C", "U+E018D", "U+E018E", "U+E018F", "U+E0190",
     "U+E0191", "U+E0192", "U+E0193", "U+E0194", "U+E0195", "U+E0196", "U+E0197", "U+E0198",
     "U+E0199", "U+E019A", "U+E019B", "U+E019C", "U+E019D", "U+E019E", "U+E019F", "U+E01A0",
     "U+E01A1", "U+E01A2", "U+E01A3", "U+E01A4", "U+E01A5", "U+E01A6", "U+E01A7", "U+E01A8",
     "U+E01A9", "U+E01AA", "U+E01AB", "U+E01AC", "U+E01AD", "U+E01AE", "U+E01AF", "U+E01B0",
     "U+E01B1", "U+E01B2", "U+E01B3", "U+E01B4", "U+E01B5", "U+E01B6", "U+E01B7", "U+E01B8",
     "U+E01B9", "U+E01BA", "U+E01BB", "U+E01BC", "U+E01BD", "U+E01BE", "U+E01BF", "U+E01C0",
     "U+E01C1", "U+E01C2", "U+E01C3", "U+E01C4", "U+E01C5", "U+E01C6", "U+E01C7", "U+E01C8",
     "U+E01C9", "U+E01CA", "U+E01CB", "U+E01CC", "U+E01CD", "U+E01CE", "U+E01CF", "U+E01D0",
     "U+E01D1", "U+E01D2", "U+E01D3", "U+E01D4", "U+E01D5", "U+E01D6", "U+E01D7", "U+E01D8",
     "U+E01D9", "U+E01DA", "U+E01DB", "U+E01DC", "U+E01DD", "U+E01DE", "U+E01DF", "U+E01E0",
     "U+E01E1", "U+E01E2", "U+E01E3", "U+E01E4", "U+E01E5", "U+E01E6", "U+E01E7", "U+E01E8",
     "U+E01E9", "U+E01EA", "U+E01EB", "U+E01EC", "U+E01ED", "U+E01EE", "U+E01EF"}

\* The characters with the property Cased and without Case_Ignorable.
CasedNotIgnorable ==
    {"A", "B", "C", "D", "E", "F", "G", "H", "I", "J", "K", "L", "M", "N", "O", "P", "Q", "R",
     "S", "T", "U", "V", "W", "X", "Y", "Z", "a", "b", "c", "d", "e", "f", "g", "h", "i", "j",
     "k", "l", "m", "n", "o", "p", "q", "r", "s", "t", "u", "v", "w", "x", "y", "z", "U+00AA",
     "U+00B5", "U+00BA", "U+00C0", "U+00C1", "U+00C2", "U+00C3", "U+00C4", "U+00C5", "U+00C6",
     "U+00C7", "U+00C8", "U+00C9", "U+00CA", "U+00CB", "U+00CC", "U+00CD", "U+00CE", "U+00CF",
     "U+00D0", "U+00D1", "U+00D2", "U+00D3", "U+00D4", "U+00D5", "U+00D6", "U+00D8", "U+00D9",
     "U+00DA", "U+00DB", "U+00DC", "U+00DD", "U+00DE", "U+00DF", "U+00E0", "U+00E1", "U+00E2",
     "U+00E3", "U+00E4", "U+00E5", "U+00E6", "U+00E7", "U+00E8", "U+00E9", "U+00EA", "U+00EB",
     "U+00EC", "U+00ED", "U+00EE", "U+00EF", "U+00F0", "U+00F1", "U+00F2", "U+00F3", "U+00F4",
     "U+00F5", "U+00F6", "U+00F8", "U+00F9", "U+00FA", "U+00FB", "U+00FC", "U+00FD", "U+00FE",
     "U+00FF", "U+0100", "U+0101", "U+0102", "U+0103", "U+0104", "U+0105", "U+0106", "U+0107",
     "U+0108", "U+0109", "U+010A", "U+010B", "U+010C", "U+010D", "U+010E", "U+010F", "U+0110",
     "U+0111", "U+0112", "U+0113", "U+0114", "U+0115", "U+0116", "U+0117", "U+0118", "U+0119",
     "U+011A", "U+011B", "U+011C", "U+011D", "U+011E", "U+011F", "U+0120", "U+0121", "U+0122",
     "U+0123", "U+0124", "U+0125", "U+0126", "U+0127", "U+0128", "U+0129", "U+012A", "U+012B",
     "U+012C", "U+012D", "U+012E", "U+012F", "U+0130", "U+0131", "U+0132", "U+0133", "U+0134",
     "U+0135", "U+0136", "U+0137", "U+0138", "U+0139", "U+013A", "U+013B", "U+013C", "U+013D",
     "U+013E", "U+013F", "U+0140", "U+0141", "U+0142", "U+0143", "U+0144", "U+0145", "U+0146",
     "U+0147", "U+0148", "U+0149", "U+014A", "U+014B", "U+014C", "U+014D", "U+014E", "U+014F",
     "U+0150", "U+0151", "U+0152", "U+0153", "U+0154", "U+0155", "U+0156", "U+0157", "U+0158",
     "U+0159", "U+015A", "U+015B", "U+015C", "U+015D", "U+015E", "U+015F", "U+0160", "U+0161",
     "U+0162", "U+0163", "U+0164", "U+0165", "U+0166", "U+0167", "U+0168", "U+0169", "U+016A",
     "U+016B", "U+016C", "U+016D", "U+016E", "U+016F", "U+0170", "U+0171", "U+0172", "U+0173",
     "U+0174", "U+0175", "U+0176", "U+0177", "U+0178", "U+0179", "U+017A", "U+017B", "U+017C",
     "U+017D", "U+017E", "U+017F", "U+0180", "U+0181", "U+0182", "U+0183", "U+0184", "U+0185",
     "U+0186", "U+0187", "U+0188", "U+0189", "U+018A", "U+018B", "U+018C", "U+018D", "U+018E",
     "U+018F", "U+0190", "U+0191", "U+0192", "U+0193", "U+0194", "U+0195", "U+0196", "U+0197",
     "U+0198", "U+0199", "U+019A", "U+019B", "U+019C", "U+019D", "U+019E", "U+019F", "U+01A0",
     "U+01A1", "U+01A2", "U+01A3", "U+01A4", "U+01A5", "U+01A6", "U+01A7", "U+01A8", "U+01A9",
     "U+01AA", "U+01AB", "U+01AC", "U+01AD", "U+01AE", "U+01AF", "U+01B0", "U+01B1", "U+01B2",
     "U+01B3", "U+01B4", "U+01B5", "U+01B6", "U+01B7", "U+01B8", "U+01B9", "U+01BA", "U+01BC",
     "U+01BD", "U+01BE", "U+01BF", "U+01C4", "U+01C5", "U+01C6", "U+01C7", "U+01C8", "U+01C9",
     "U+01CA", "U+01CB", "U+01CC", "U+01CD", "U+01CE", "U+01CF", "U+01D0", "U+01D1", "U+01D2",
     "U+01D3", "U+01D4", "U+01D5", "U+01D6", "U+01D7", "U+01D8", "U+01D9", "U+01DA", "U+01DB",
     "U+01DC", "U+01DD", "U+01DE", "U+01DF", "U+01E0", "U+01E1", "U+01E2", "U+01E3", "U+01E4",
     "U+01E5", "U+01E6", "U+01E7", "U+01E8", "U+01E9", "U+01EA", "U+01EB", "U+01EC", "U+01ED",
     "U+01EE", "U+01EF", "U+01F0", "U+01F1", "U+01F2", "U+01F3", "U+01F4", "U+01F5", "U+01F6",
     "U+01F7", "U+01F8", "U+01F9", "U+01FA", "U+01FB", "U+01FC", "U+01FD", "U+01FE", "U+01FF",
     "U+0200", "U+0201", "U+0202", "U+0203", "U+0204", "U+0205", "U+0206", "U+0207", "U+0208",
     "U+0209", "U+020A", "U+020B", "U+020C", "U+020D", "U+020E", "U+020F", "U+0210", "U+0211",
     "U+0212", "U+0213", "U+0214", "U+0215", "U+0216", "U+0217", "U+0218", "U+0219", "U+021A",
     "U+021B", "U+021C", "U+021D", "U+021E", "U+021F", "U+0220", "U+0221", "U+0222", "U+0223",
     "U+0224", "U+0225", "U+0226", "U+0227", "U+0228", "U+0229", "U+022A", "U+022B", "U+022C",
     "U+022D", "U+022E", "U+022F", "U+0230", "U+0231", "U+0232", "U+0233", "U+0234", "U+0235",
     "U+0236", "U+0237", "U+0238", "U+0239", "U+023A", "U+023B", "U+023C", "U+023D", "U+023E",
     "U+023F", "U+0240", "U+0241", "U+0242", "U+0243", "U+0244", "U+0245", "U+0246", "U+0247",
     "U+0248", "U+0249", "U+024A", "U+024B", "U+024C", "U+024D", "U+024E", "U+024F", "U+0250",
     "U+0251", "U+0252", "U+0253", "U+0254", "U+0255", "U+0256", "U+0257", "U+0258", "U+0259",
     "U+025A", "U+025B", "U+025C", "U+025D", "U+025E", "U+025F", "U+0260", "U+0261", "U+0262",
     "U+0263", "U+0264", "U+0265", "U+0266", "U+0267", "U+0268", "U+0269", "U+026A", "U+026B",
     "U+026C", "U+026D", "U+026E", "U+026F", "U+0270", "U+0271", "U+0272", "U+0273", "U+0274",
     "U+0275", "U+0276", "U+0277", "U+0278", "U+0279", "U+027A", "U+027B", "U+027C", "U+027D",
     "U+027E", "U+027F", "U+0280", "U+0281", "U+0282", "U+0283", "U+0284", "U+0285", "U+0286",
     "U+0287", "U+0288", "U+0289", "U+028A", "U+028B", "U+028C", "U+028D", "U+028E", "U+028F",
     "U+0290", "U+0291", "U+0292", "U+0293", "U+0296", "U+0297", "U+0298", "U+0299", "U+029A",
     "U+029B", "U+029C", "U+029D", "U+029E", "U+029F", "U+02A0", "U+02A1", "U+02A2", "U+02A3",
     "U+02A4", "U+02A5", "U+02A6", "U+02A7", "U+02A8", "U+02A9", "U+02AA", "U+02AB", "U+02AC",
     "U+02AD", "U+02AE", "U+02AF", "U+0370", "U+0371", "U+0372", "U+0373", "U+0376", "U+0377",
     "U+037B", "U+037C", "U+037D", "U+037F", "U+0386", "U+0388", "U+0389", "U+038A", "U+038C",
     "U+038E", "U+038F", "U+0390", "U+0391", "U+0392", "U+0393", "U+0394", "U+0395", "U+0396",
     "U+0397", "U+0398", "U+0399", "U+039A", "U+039B", "U+039C", "U+039D", "U+039E", "U+039F",
     "U+03A0", "U+03A1", "U+03A3", "U+03A4", "U+03A5", "U+03A6", "U+03A7", "U+03A8", "U+03A9",
     "U+03AA", "U+03AB", "U+03AC", "U+03AD", "U+03AE", "U+03AF", "U+03B0", "U+03B1", "U+03B2",
     "U+03B3", "U+03B4", "U+03B5", "U+03B6", "U+03B7", "U+03B8", "U+03B9", "U+03BA", "U+03BB",
     "U+03BC", "U+03BD", "U+03BE", "U+03BF", "U+03C0", "U+03C1", "U+03C2", "U+03C3", "U+03C4",
     "U+03C5", "U+03C6", "U+03C7", "U+03C8", "U+03C9", "U+03CA", "U+03CB", "U+03CC", "U+03CD",
     "U+03CE", "U+03CF", "U+03D0", "U+03D1", "U+03D2", "U+03D3", "U+03D4", "U+03D5", "U+03D6",
     "U+03D7", "U+03D8", "U+03D9", "U+03DA", "U+03DB", "U+03DC", "U+03DD", "U+03DE", "U+03DF",
     "U+03E0", "U+03E1", "U+03E2", "U+03E3", "U+03E4", "U+03E5", "U+03E6", "U+03E7", "U+03E8",
     "U+03E9", "U+03EA", "U+03EB", "U+03EC", "U+03ED", "U+03EE", "U+03EF", "U+03F0", "U+03F1",
     "U+03F2", "U+03F3", "U+03F4", "U+03F5", "U+03F7", "U+03F8", "U+03F9", "U+03FA", "U+03FB",
     "U+03FC", "U+03FD", "U+03FE", "U+03FF", "U+0400", "U+0401", "U+0402", "U+0403", "U+0404",
     "U+0405", "U+0406", "U+0407", "U+0408", "U+0409", "U+040A", "U+040B", "U+040C", "U+040D",
     "U+040E", "U+040F", "U+0410", "U+0411", "U+0412", "U+0413", "U+0414", "U+0415", "U+0416",
     "U+0417", "U+0418", "U+0419", "U+041A", "U+041B", "U+041C", "U+041D", "U+041E", "U+041F",
     "U+0420", "U+0421", "U+0422", "U+0423", "U+0424", "U+0425", "U+0426", "U+0427", "U+0428",
     "U+0429", "U+042A", "U+042B", "U+042C", "U+042D", "U+042E", "U+042F", "U+0430", "U+0431",
     "U+0432", "U+0433", "U+0434", "U+0435", "U+0436", "U+0437", "U+0438", "U+0439", "U+043A",
     "U+043B", "U+043C", "U+043D", "U+043E", "U+043F", "U+0440", "U+0441", "U+0442", "U+0443",
     "U+0444", "U+0445", "U+0446", "U+0447", "U+0448", "U+0449", "U+044A", "U+044B", "U+044C",
     "U+044D", "U+044E", "U+044F", "U+0450", "U+0451", "U+0452", "U+0453", "U+0454", "U+0455",
     "U+0456", "U+0457", "U+0458", "U+0459", "U+045A", "U+045B", "U+045C", "U+045D", "U+045E",
     "U+045F", "U+0460", "U+0461", "U+0462", "U+0463", "U+0464", "U+0465", "U+0466", "U+0467",
     "U+0468", "U+0469", "U+046A", "U+046B", "U+046C", "U+046D", "U+046E", "U+046F", "U+0470",
     "U+0471", "U+0472", "U+0473", "U+0474", "U+0475", "U+0476", "U+0477", "U+0478", "U+0479",
     "U+047A", "U+047B", "U+047C", "U+047D", "U+047E", "U+047F", "U+0480", "U+0481", "U+048A",
     "U+048B", "U+048C", "U+048D", "U+048E", "U+048F", "U+0490", "U+0491", "U+0492", "U+0493",
     "U+0494", "U+0495", "U+0496", "U+0497", "U+0498", "U+0499", "U+049A", "U+049B", "U+049C",
     "U+049D", "U+049E", "U+049F", "U+04A0", "U+04A1", "U+04A2", "U+04A3", "U+04A4", "U+04A5",
     "U+04A6", "U+04A7", "U+04A8", "U+04A9", "U+04AA", "U+04AB", "U+04AC", "U+04AD", "U+04AE",
     "U+04AF", "U+04B0", "U+04B1", "U+04B2", "U+04B3", "U+04B4", "U+04B5", "U+04B6", "U+04B7",
     "U+04B8", "U+04B9", "U+04BA", "U+04BB", "U+04BC", "U+04BD", "U+04BE", "U+04BF", "U+04C0",
     "U+04C1", "U+04C2", "U+04C3", "U+04C4", "U+04C5", "U+04C6", "U+04C7", "U+04C8", "U+04C9",
     "U+04CA", "U+04CB", "U+04CC", "U+04CD", "U+04CE", "U+04CF", "U+04D0", "U+04D1", "U+04D2",
     "U+04D3", "U+04D4", "U+04D5", "U+04D6", "U+04D7", "U+04D8", "U+04D9", "U+04DA", "U+04DB",
     "U+04DC", "U+04DD", "U+04DE", "U+04DF", "U+04E0", "U+04E1", "U+04E2", "U+04E3", "U+04E4",
     "U+04E5", "U+04E6", "U+04E7", "U+04E8", "U+04E9", "U+04EA", "U+04EB", "U+04EC", "U+04ED",
     "U+04EE", "U+04EF", "U+04F0", "U+04F1", "U+04F2", "U+04F3", "U+04F4", "U+04F5", "U+04F6",
     "U+04F7", "U+04F8", "U+04F9", "U+04FA", "U+04FB", "U+04FC", "U+04FD", "U+04FE", "U+04FF",
     "U+0500", "U+0501", "U+0502", "U+0503", "U+0504", "U+0505", "U+0506", "U+0507", "U+0508",
     "U+0509", "U+050A", "U+050B", "U+050C", "U+050D", "U+050E", "U+050F", "U+0510", "U+0511",
     "U+0512", "U+0513", "U+0514", "U+0515", "U+0516", "U+0517", "U+0518", "U+0519", "U+051A",
     "U+051B", "U+051C", "U+051D", "U+051E", "U+051F", "U+0520", "U+0521", "U+0522", "U+0523",
     "U+0524", "U+0525", "U+0526", "U+0527", "U+0528", "U+0529", "U+052A", "U+052B", "U+052C",
     "U+052D", "U+052E", "U+052F", "U+0531", "U+0532", "U+0533", "U+0534", "U+0535", "U+0536",
     "U+0537", "U+0538", "U+0539", "U+053A", "U+053B", "U+053C", "U+053D", "U+053E", "U+053F",
     "U+0540", "U+0541", "U+0542", "U+0543", "U+0544", "U+0545", "U+0546", "U+0547", "U+0548",
     "U+0549", "U+054A", "U+054B", "U+054C", "U+054D", "U+054E", "U+054F", "U+0550", "U+0551",
     "U+0552", "U+0553", "U+0554", "U+0555", "U+0556", "U+0560", "U+0561", "U+0562", "U+0563",
     "U+0564", "U+0565", "U+0566", "U+0567", "U+0568", "U+0569", "U+056A", "U+056B", "U+056C",
     "U+056D", "U+056E", "U+056F", "U+0570", "U+0571", "U+0572", "U+0573", "U+0574", "U+0575",
     "U+0576", "U+0577", "U+0578", "U+0579", "U+057A", "U+057B", "U+057C", "U+057D", "U+057E",
     "U+057F", "U+0580", "U+0581", "U+0582", "U+0583", "U+0584", "U+0585", "U+0586", "U+0587",
     "U+0588", "U+10A0", "U+10A1", "U+10A2", "U+10A3", "U+10A4", "U+10A5", "U+10A6", "U+10A7",
     "U+10A8", "U+10A9", "U+10AA", "U+10AB", "U+10AC", "U+10AD", "U+10AE", "U+10AF", "U+10B0",
     "U+10B1", "U+10B2", "U+10B3", "U+10B4", "U+10B5", "U+10B6", "U+10B7", "U+10B8", "U+10B9",
     "U+10BA", "U+10BB", "U+10BC", "U+10BD", "U+10BE", "U+10BF", "U+10C0", "U+10C1", "U+10C2",
     "U+10C3", "U+10C4", "U+10C5", "U+10C7", "U+10CD", "U+10D0", "U+10D1", "U+10D2", "U+10D3",
     "U+10D4", "U+10D5", "U+10D6", "U+10D7", "U+10D8", "U+10D9", "U+10DA", "U+10DB", "U+10DC",
     "U+10DD", "U+10DE", "U+10DF", "U+10E0", "U+10E1", "U+10E2", "U+10E3", "U+10E4", "U+10E5",
     "U+10E6", "U+10E7", "U+10E8", "U+10E9", "U+10EA", "U+10EB", "U+10EC", "U+10ED", "U+10EE",
     "U+10EF", "U+10F0", "U+10F1", "U+10F2", "U+10F3", "U+10F4", "U+10F5", "U+10F6", "U+10F7",
     "U+10F8", "U+10F9", "U+10FA", "U+10FD", "U+10FE", "U+10FF", "U+13A0", "U+13A1", "U+13A2",
     "U+13A3", "U+13A4", "U+13A5", "U+13A6", "U+13A7", "U+13A8", "U+13A9", "U+13AA", "U+13AB",
     "U+13AC", "U+13AD", "U+13AE", "U+13AF", "U+13B0", "U+13B1", "U+13B2", "U+13B3", "U+13B4",
     "U+13B5", "U+13B6", "U+13B7", "U+13B8", "U+13B9", "U+13BA", "U+13BB", "U+13BC", "U+13BD",
     "U+13BE", "U+13BF", "U+13C0", "U+13C1", "U+13C2", "U+13C3", "U+13C4", "U+13C5", "U+13C6",
     "U+13C7", "U+13C8", "U+13C9", "U+13CA", "U+13CB", "U+13CC", "U+13CD", "U+13CE", "U+13CF",
     "U+13D0", "U+13D1", "U+13D2", "U+13D3", "U+13D4", "U+13D5", "U+13D6", "U+13D7", "U+13D8",
     "U+13D9", "U+13DA", "U+13DB", "U+13DC", "U+13DD", "U+13DE", "U+13DF", "U+13E0", "U+13E1",
     "U+13E2", "U+13E3", "U+13E4", "U+13E5", "U+13E6", "U+13E7", "U+13E8", "U+13E9", "U+13EA",
     "U+13EB", "U+13EC", "U+13ED", "U+13EE", "U+13EF", "U+13F0", "U+13F1", "U+13F2", "U+13F3",
     "U+13F4", "U+13F5", "U+13F8", "U+13F9", "U+13FA", "U+13FB", "U+13FC", "U+13FD", "U+1C80",
     "U+1C81", "U+1C82", "U+1C83", "U+1C84", "U+1C85", "U+1C86", "U+1C87", "U+1C88", "U+1C89",
     "U+1C8A", "U+1C90", "U+1C91", "U+1C92", "U+1C93", "U+1C94", "U+1C95", "U+1C96", "U+1C97",
     "U+1C98", "U+1C99", "U+1C9A", "U+1C9B", "U+1C9C", "U+1C9D", "U+1C9E", "U+1C9F", "U+1CA0",
     "U+1CA1", "U+1CA2", "U+1CA3", "U+1CA4", "U+1CA5", "U+1CA6", "U+1CA7", "U+1CA8", "U+1CA9",
     "U+1CAA", "U+1CAB", "U+1CAC", "U+1CAD", "U+1CAE", "U+1CAF", "U+1CB0", "U+1CB1", "U+1CB2",
     "U+1CB3", "U+1CB4", "U+1CB5", "U+1CB6", "U+1CB7", "U+1CB8", "U+1CB9", "U+1CBA", "U+1CBD",
     "U+1CBE", "U+1CBF", "U+1D00", "U+1D01", "U+1D02", "U+1D03", "U+1D04", "U+1D05", "U+1D06",
     "U+1D07", "U+1D08", "U+1D09", "U+1D0A", "U+1D0B", "U+1D0C", "U+1D0D", "U+1D0E", "U+1D0F",
     "U+1D10", "U+1D11", "U+1D12", "U+1D13", "U+1D14", "U+1D15", "U+1D16", "U+1D17", "U+1D18",
     "U+1D19", "U+1D1A", "U+1D1B", "U+1D1C", "U+1D1D", "U+1D1E", "U+1D1F", "U+1D20", "U+1D21",
     "U+1D22", "U+1D23", "U+1D24", "U+1D25", "U+1D26", "U+1D27", "U+1D28", "U+1D29", "U+1D2A",
     "U+1D2B", "U+1D6B", "U+1D6C", "U+1D6D", "U+1D6E", "U+1D6F", "U+1D70", "U+1D71", "U+1D72",
     "U+1D73", "U+1D74", "U+1D75", "U+1D76", "U+1D77", "U+1D79", "U+1D7A", "U+1D7B", "U+1D7C",
     "U+1D7D", "U+1D7E", "U+1D7F", "U+1D80", "U+1D81", "U+1D82", "U+1D83", "U+1D84", "U+1D85",
     "U+1D86", "U+1D87", "U+1D88", "U+1D89", "U+1D8A", "U+1D8B", "U+1D8C", "U+1D8D", "U+1D8E",
     "U+1D8F", "U+1D90", "U+1D91", "U+1D92", "U+1D93", "U+1D94", "U+1D95", "U+1D96", "U+1D97",
     "U+1D98", "U+1D99", "U+1D9A", "U+1E00", "U+1E01", "U+1E02", "U+1E03", "U+1E04", "U+1E05",
     "U+1E06", "U+1E07", "U+1E08", "U+1E09", "U+1E0A", "U+1E0B", "U+1E0C", "U+1E0D", "U+1E0E",
     "U+1E0F", "U+1E10", "U+1E11", "U+1E12", "U+1E13", "U+1E14", "U+1E15", "U+1E16", "U+1E17",
     "U+1E18", "U+1E19", "U+1E1A", "U+1E1B", "U+1E1C", "U+1E1D", "U+1E1E", "U+1E1F", "U+1E20",
     "U+1E21", "U+1E22", "U+1E23", "U+1E24", "U+1E25", "U+1E26", "U+1E27", "U+1E28", "U+1E29",
     "U+1E2A", "U+1E2B", "U+1E2C", "U+1E2D", "U+1E2E", "U+1E2F", "U+1E30", "U+1E31", "U+1E32",
     "U+1E33", "U+1E34", "U+1E35", "U+1E36", "U+1E37", "U+1E38", "U+1E39", "U+1E3A", "U+1E3B",
     "U+1E3C", "U+1E3D", "U+1E3E", "U+1E3F", "U+1E40", "U+1E41", "U+1E42", "U+1E43", "U+1E44",
     "U+1E45", "U+1E46", "U+1E47", "U+1E48", "U+1E49", "U+1E4A", "U+1E4B", "U+1E4C", "U+1E4D",
     "U+1E4E", "U+1E4F", "U+1E50", "U+1E51", "U+1E52", "U+1E53", "U+1E54", "U+1E55", "U+1E56",
     "U+1E57", "U+1E58", "U+1E59", "U+1E5A", "U+1E5B", "U+1E5C", "U+1E5D", "U+1E5E", "U+1E5F",
     "U+1E60", "U+1E61", "U+1E62", "U+1E63", "U+1E64", "U+1E65", "U+1E66", "U+1E67", "U+1E68",
     "U+1E69", "U+1E6A", "U+1E6B", "U+1E6C", "U+1E6D", "U+1E6E", "U+1E6F", "U+1E70", "U+1E71",
     "U+1E72", "U+1E73", "U+1E74", "U+1E75", "U+1E76", "U+1E77", "U+1E78", "U+1E79", "U+1E7A",
     "U+1E7B", "U+1E7C", "U+1E7D", "U+1E7E", "U+1E7F", "U+1E80", "U+1E81", "U+1E82", "U+1E83",
     "U+1E84", "U+1E85", "U+1E86", "U+1E87", "U+1E88", "U+1E89", "U+1E8A", "U+1E8B", "U+1E8C",
     "U+1E8D", "U+1E8E", "U+1E8F", "U+1E90", "U+1E91", "U+1E92", "U+1E93", "U+1E94", "U+1E95",
     "U+1E96", "U+1E97", "U+1E98", "U+1E99", "U+1E9A", "U+1E9B", "U+1E9C", "U+1E9D", "U+1E9E",
     "U+1E9F", "U+1EA0", "U+1EA1", "U+1EA2", "U+1EA3", "U+1EA4", "U+1EA5", "U+1EA6", "U+1EA7",
     "U+1EA8", "U+1EA9", "U+1EAA", "U+1EAB", "U+1EAC", "U+1EAD", "U+1EAE", "U+1EAF", "U+1EB0",
     "U+1EB1", "U+1EB2", "U+1EB3", "U+1EB4", "U+1EB5", "U+1EB6", "U+1EB7", "U+1EB8", "U+1EB9",
     "U+1EBA", "U+1EBB", "U+1EBC", "U+1EBD", "U+1EBE", "U+1EBF", "U+1EC0", "U+1EC1", "U+1EC2",
     "U+1EC3", "U+1EC4", "U+1EC5", "U+1EC6", "U+1EC7", "U+1EC8", "U+1EC9", "U+1ECA", "U+1ECB",
     "U+1ECC", "U+1ECD", "U+1ECE", "U+1ECF", "U+1ED0", "U+1ED1", "U+1ED2", "U+1ED3", "U+1ED4",
     "U+1ED5", "U+1ED6", "U+1ED7", "U+1ED8", "U+1ED9", "U+1EDA", "U+1EDB", "U+1EDC", "U+1EDD",
     "U+1EDE", "U+1EDF", "U+1EE0", "U+1EE1", "U+1EE2", "U+1EE3", "U+1EE4", "U+1EE5", "U+1EE6",
     "U+1EE7", "U+1EE8", "U+1EE9", "U+1EEA", "U+1EEB", "U+1EEC", "U+1EED", "U+1EEE", "U+1EEF",
     "U+1EF0", "U+1EF1", "U+1EF2", "U+1EF3", "U+1EF4", "U+1EF5", "U+1EF6", "U+1EF7", "U+1EF8",
     "U+1EF9", "U+1EFA", "U+1EFB", "U+1EFC", "U+1EFD", "U+1EFE", "U+1EFF", "U+1F00", "U+1F01",
     "U+1F02", "U+1F03", "U+1F04", "U+1F05", "U+1F06", "U+1F07", "U+1F08", "U+1F09", "U+1F0A",
     "U+1F0B", "U+1F0C", "U+1F0D", "U+1F0E", "U+1F0F", "U+1F10", "U+1F11", "U+1F12", "U+1F13",
     "U+1F14", "U+1F15", "U+1F18", "U+1F19", "U+1F1A", "U+1F1B", "U+1F1C", "U+1F1D", "U+1F20",
     "U+1F21", "U+1F22", "U+1F23", "U+1F24", "U+1F25", "U+1F26", "U+1F27", "U+1F28", "U+1F29",
     "U+1F2A", "U+1F2B", "U+1F2C", "U+1F2D", "U+1F2E", "U+1F2F", "U+1F30", "U+1F31", "U+1F32",
     "U+1F33", "U+1F34", "U+1F35", "U+1F36", "U+1F37", "U+1F38", "U+1F39", "U+1F3A", "U+1F3B",
     "U+1F3C", "U+1F3D", "U+1F3E", "U+1F3F", "U+1F40", "U+1F41", "U+1F42", "U+1F43", "U+1F44",
     "U+1F45", "U+1F48", "U+1F49", "U+1F4A", "U+1F4B", "U+1F4C", "U+1F4D", "U+1F50", "U+1F51",
     "U+1F52", "U+1F53", "U+1F54", "U+1F55", "U+1F56", "U+1F57", "U+1F59", "U+1F5B", "U+1F5D",
     "U+1F5F", "U+1F60", "U+1F61", "U+1F62", "U+1F63", "U+1F64", "U+1F65", "U+1F66", "U+1F67",
     "U+1F68", "U+1F69", "U+1F6A", "U+1F6B", "U+1F6C", "U+1F6D", "U+1F6E", "U+1F6F", "U+1F70",
     "U+1F71", "U+1F72", "U+1F73", "U+1F74", "U+1F75", "U+1F76", "U+1F77", "U+1F78", "U+1F79",
     "U+1F7A", "U+1F7B", "U+1F7C", "U+1F7D", "U+1F80", "U+1F81", "U+1F82", "U+1F83", "U+1F84",
     "U+1F85", "U+1F86", "U+1F87", "U+1F88", "U+1F89", "U+1F8A", "U+1F8B", "U+1F8C", "U+1F8D",
     "U+1F8E", "U+1F8F", "U+1F90", "U+1F91", "U+1F92", "U+1F93", "U+1F94", "U+1F95", "U+1F96",
     "U+1F97", "U+1F98", "U+1F99", "U+1F9A", "U+1F9B", "U+1F9C", "U+1F9D", "U+1F9E", "U+1F9F",
     "U+1FA0", "U+1FA1", "U+1FA2", "U+1FA3", "U+1FA4", "U+1FA5", "U+1FA6", "U+1FA7", "U+1FA8",
     "U+1FA9", "U+1FAA", "U+1FAB", "U+1FAC", "U+1FAD", "U+1FAE", "U+1FAF", "U+1FB0", "U+1FB1",
     "U+1FB2", "U+1FB3", "U+1FB4", "U+1FB6", "U+1FB7", "U+1FB8", "U+1FB9", "U+1FBA", "U+1FBB",
     "U+1FBC", "U+1FBE", "U+1FC2", "U+1FC3", "U+1FC4", "U+1FC6", "U+1FC7", "U+1FC8", "U+1FC9",
     "U+1FCA", "U+1FCB", "U+1FCC", "U+1FD0", "U+1FD1", "U+1FD2", "U+1FD3", "U+1FD6", "U+1FD7",
     "U+1FD8", "U+1FD9", "U+1FDA", "U+1FDB", "U+1FE0", "U+1FE1", "U+1FE2", "U+1FE3", "U+1FE4",
     "U+1FE5", "U+1FE6", "U+1FE7", "U+1FE8", "U+1FE9", "U+1FEA", "U+1FEB", "U+1FEC", "U+1FF2",
     "U+1FF3", "U+1FF4", "U+1FF6", "U+1FF7", "U+1FF8", "U+1FF9", "U+1FFA", "U+1FFB", "U+1FFC",
     "U+2102", "U+2107", "U+210A", "U+210B", "U+210C", "U+210D", "U+210E", "U+210F", "U+2110",
     "U+2111", "U+2112", "U+2113", "U+2115", "U+2119", "U+211A", "U+211B", "U+211C", "U+211D",
     "U+2124", "U+2126", "U+2128", "U+212A", "U+212B", "U+212C", "U+212D", "U+212F", "U+2130",
     "U+2131", "U+2132", "U+2133", "U+2134", "U+2139", "U+213C", "U+213D", "U+213E", "U+213F",
     "U+2145", "U+2146", "U+2147", "U+2148", "U+2149", "U+214E", "U+2160", "U+2161", "U+2162",
     "U+2163", "U+2164", "U+2165", "U+2166", "U+2167", "U+2168", "U+2169", "U+216A", "U+216B",
     "U+216C", "U+216D", "U+216E", "U+216F", "U+2170", "U+2171", "U+2172", "U+2173", "U+2174",
     "U+2175", "U+2176", "U+2177", "U+2178", "U+2179", "U+217A", "U+217B", "U+217C", "U+217D",
     "U+217E", "U+217F", "U+2183", "U+2184", "U+24B6", "U+24B7", "U+24B8", "U+24B9", "U+24BA",
     "U+24BB", "U+24BC", "U+24BD", "U+24BE", "U+24BF", "U+24C0", "U+24C1", "U+24C2", "U+24C3",
     "U+24C4", "U+24C5", "U+24C6", "U+24C7", "U+24C8", "U+24C9", "U+24CA", "U+24CB", "U+24CC",
     "U+24CD", "U+24CE", "U+24CF", "U+24D0", "U+24D1", "U+24D2", "U+24D3", "U+24D4", "U+24D5",
     "U+24D6", "U+24D7", "U+24D8", "U+24D9", "U+24DA", "U+24DB", "U+24DC", "U+24DD", "U+24DE",
     "U+24DF", "U+24E0", "U+24E1", "U+24E2", "U+24E3", "U+24E4", "U+24E5", "U+24E6", "U+24E7",
     "U+24E8", "U+24E9", "U+2C00", "U+2C01", "U+2C02", "U+2C03", "U+2C04", "U+2C05", "U+2C06",
     "U+2C07", "U+2C08", "U+2C09", "U+2C0A", "U+2C0B", "U+2C0C", "U+2C0D", "U+2C0E", "U+2C0F",
     "U+2C10", "U+2C11", "U+2C12", "U+2C13", "U+2C14", "U+2C15", "U+2C16", "U+2C17", "U+2C18",
     "U+2C19", "U+2C1A", "U+2C1B", "U+2C1C", "U+2C1D", "U+2C1E", "U+2C1F", "U+2C20", "U+2C21",
     "U+2C22", "U+2C23", "U+2C24", "U+2C25", "U+2C26", "U+2C27", "U+2C28", "U+2C29", "U+2C2A",
     "U+2C2B", "U+2C2C", "U+2C2D", "U+2C2E", "U+2C2F", "U+2C30", "U+2C31", "U+2C32", "U+2C33",
     "U+2C34", "U+2C35", "U+2C36", "U+2C37", "U+2C38", "U+2C39", "U+2C3A", "U+2C3B", "U+2C3C",
     "U+2C3D", "U+2C3E", "U+2C3F", "U+2C40", "U+2C41", "U+2C42", "U+2C43", "U+2C44", "U+2C45",
     "U+2C46", "U+2C47", "U+2C48", "U+2C49", "U+2C4A", "U+2C4B", "U+2C4C", "U+2C4D", "U+2C4E",
     "U+2C4F", "U+2C50", "U+2C51", "U+2C52", "U+2C53", "U+2C54", "U+2C55", "U+2C56", "U+2C57",
     "U+2C58", "U+2C59", "U+2C5A", "U+2C5B", "U+2C5C", "U+2C5D", "U+2C5E", "U+2C5F", "U+2C60",
     "U+2C61", "U+2C62", "U+2C63", "U+2C64", "U+2C65", "U+2C66", "U+2C67", "U+2C68", "U+2C69",
     "U+2C6A", "U+2C6B", "U+2C6C", "U+2C6D", "U+2C6E", "U+2C6F", "U+2C70", "U+2C71", "U+2C72",
     "U+2C73", "U+2C74", "U+2C75", "U+2C76", "U+2C77", "U+2C78", "U+2C79", "U+2C7A", "U+2C7B",
     "U+2C7E", "U+2C7F", "U+2C80", "U+2C81", "U+2C82", "U+2C83", "U+2C84", "U+2C85", "U+2C86",
     "U+2C87", "U+2C88", "U+2C89", "U+2C8A", "U+2C8B", "U+2C8C", "U+2C8D", "U+2C8E", "U+2C8F",
     "U+2C90", "U+2C91", "U+2C92", "U+2C93", "U+2C94", "U+2C95", "U+2C96", "U+2C97", "U+2C98",
     "U+2C99", "U+2C9A", "U+2C9B", "U+2C9C", "U+2C9D", "U+2C9E", "U+2C9F", "U+2CA0", "U+2CA1",
     "U+2CA2", "U+2CA3", "U+2CA4", "U+2CA5", "U+2CA6", "U+2CA7", "U+2CA8", "U+2CA9", "U+2CAA",
     "U+2CAB", "U+2CAC", "U+2CAD", "U+2CAE", "U+2CAF", "U+2CB0", "U+2CB1", "U+2CB2", "U+2CB3",
     "U+2CB4", "U+2CB5", "U+2CB6", "U+2CB7", "U+2CB8", "U+2CB9", "U+2CBA", "U+2CBB", "U+2CBC",
     "U+2CBD", "U+2CBE", "U+2CBF", "U+2CC0", "U+2CC1", "U+2CC2", "U+2CC3", "U+2CC4", "U+2CC5",
     "U+2CC6", "U+2CC7", "U+2CC8", "U+2CC9", "U+2CCA", "U+2CCB", "U+2CCC", "U+2CCD", "U+2CCE",
     "U+2CCF", "U+2CD0", "U+2CD1", "U+2CD2", "U+2CD3", "U+2CD4", "U+2CD5", "U+2CD6", "U+2CD7",
     "U+2CD8", "U+2CD9", "U+2CDA", "U+2CDB", "U+2CDC", "U+2CDD", "U+2CDE", "U+2CDF", "U+2CE0",
     "U+2CE1", "U+2CE2", "U+2CE3", "U+2CE4", "U+2CEB", "U+2CEC", "U+2CED", "U+2CEE", "U+2CF2",
     "U+2CF3", "U+2D00", "U+2D01", "U+2D02", "U+2D03", "U+2D04", "U+2D05", "U+2D06", "U+2D07",
     "U+2D08", "U+2D09", "U+2D0A", "U+2D0B", "U+2D0C", "U+2D0D", "U+2D0E", "U+2D0F", "U+2D10",
     "U+2D11", "U+2D12", "U+2D13", "U+2D14", "U+2D15", "U+2D16", "U+2D17", "U+2D18", "U+2D19",
     "U+2D1A", "U+2D1B", "U+2D1C", "U+2D1D", "U+2D1E", "U+2D1F", "U+2D20", "U+2D21", "U+2D22",
     "U+2D23", "U+2D24", "U+2D25", "U+2D27", "U+2D2D", "U+A640", "U+A641", "U+A642", "U+A643",
     "U+A644", "U+A645", "U+A646", "U+A647", "U+A648", "U+A649", "U+A64A", "U+A64B", "U+A64C",
     "U+A64D", "U+A64E", "U+A64F", "U+A650", "U+A651", "U+A652", "U+A653", "U+A654", "U+A655",
     "U+A656", "U+A657", "U+A658", "U+A659", "U+A65A", "U+A65B", "U+A65C", "U+A65D", "U+A65E",
     "U+A65F", "U+A660", "U+A661", "U+A662", "U+A663", "U+A664", "U+A665", "U+A666", "U+A667",
     "U+A668", "U+A669", "U+A66A", "U+A66B", "U+A66C", "U+A66D", "U+A680", "U+A681", "U+A682",
     "U+A683", "U+A684", "U+A685", "U+A686", "U+A687", "U+A688", "U+A689", "U+A68A", "U+A68B",
     "U+A68C", "U+A68D", "U+A68E", "U+A68F", "U+A690", "U+A691", "U+A692", "U+A693", "U+A694",
     "U+A695", "U+A696", "U+A697", "U+A698", "U+A699", "U+A69A", "U+A69B", "U+A722", "U+A723",
     "U+A724", "U+A725", "U+A726", "U+A727", "U+A728", "U+A729", "U+A72A", "U+A72B", "U+A72C",
     "U+A72D", "U+A72E", "U+A72F", "U+A730", "U+A731", "U+A732", "U+A733", "U+A734", "U+A735",
     "U+A736", "U+A737", "U+A738", "U+A739", "U+A73A", "U+A73B", "U+A73C", "U+A73D", "U+A73E",
     "U+A73F", "U+A740", "U+A741", "U+A742", "U+A743", "U+A744", "U+A745", "U+A746", "U+A747",
     "U+A748", "U+A749", "U+A74A", "U+A74B", "U+A74C", "U+A74D", "U+A74E", "U+A74F", "U+A750",
     "U+A751", "U+A752", "U+A753", "U+A754", "U+A755", "U+A756", "U+A757", "U+A758", "U+A759",
     "U+A75A", "U+A75B", "U+A75C", "U+A75D", "U+A75E", "U+A75F", "U+A760", "U+A761", "U+A762",
     "U+A763", "U+A764", "U+A765", "U+A766", "U+A767", "U+A768", "U+A769", "U+A76A", "U+A76B",
     "U+A76C", "U+A76D", "U+A76E", "U+A76F", "U+A771", "U+A772", "U+A773", "U+A774", "U+A775",
     "U+A776", "U+A777", "U+A778", "U+A779", "U+A77A", "U+A77B", "U+A77C", "U+A77D", "U+A77E",
     "U+A77F", "U+A780", "U+A781", "U+A782", "U+A783", "U+A784", "U+A785", "U+A786", "U+A787",
     "U+A78B", "U+A78C", "U+A78D", "U+A78E", "U+A790", "U+A791", "U+A792", "U+A793", "U+A794",
     "U+A795", "U+A796", "U+A797", "U+A798", "U+A799", "U+A79A", "U+A79B", "U+A79C", "U+A79D",
     "U+A79E", "U+A79F", "U+A7A0", "U+A7A1", "U+A7A2", "U+A7A3", "U+A7A4", "U+A7A5", "U+A7A6",
     "U+A7A7", "U+A7A8", "U+A7A9", "U+A7AA", "U+A7AB", "U+A7AC", "U+A7AD", "U+A7AE", "U+A7AF",
     "U+A7B0", "U+A7B1", "U+A7B2", "U+A7B3", "U+A7B4", "U+A7B5", "U+A7B6", "U+A7B7", "U+A7B8",
     "U+A7B9", "U+A7BA", "U+A7BB", "U+A7BC", "U+A7BD", "U+A7BE", "U+A7BF", "U+A7C0", "U+A7C1",
     "U+A7C2", "U+A7C3", "U+A7C4", "U+A7C5", "U+A7C6", "U+A7C7", "U+A7C8", "U+A7C9", "U+A7CA",
     "U+A7CB", "U+A7CC", "U+A7CD", "U+A7CE", "U+A7CF", "U+A7D0", "U+A7D1", "U+A7D2", "U+A7D3",
     "U+A7D4", "U+A7D5", "U+A7D6", "U+A7D7", "U+A7D8", "U+A7D9", "U+A7DA", "U+A7DB", "U+A7DC",
     "U+A7F5", "U+A7F6", "U+A7FA", "U+AB30", "U+AB31", "U+AB32", "U+AB33", "U+AB34", "U+AB35",
     "U+AB36", "U+AB37", "U+AB38", "U+AB39", "U+AB3A", "U+AB3B", "U+AB3C", "U+AB3D", "U+AB3E",
     "U+AB3F", "U+AB40", "U+AB41", "U+AB42", "U+AB43", "U+AB44", "U+AB45", "U+AB46", "U+AB47",
     "U+AB48", "U+AB49", "U+AB4A", "U+AB4B", "U+AB4C", "U+AB4D", "U+AB4E", "U+AB4F", "U+AB50",
     "U+AB51", "U+AB52", "U+AB53", "U+AB54", "U+AB55", "U+AB56", "U+AB57", "U+AB58", "U+AB59",
     "U+AB5A", "U+AB60", "U+AB61", "U+AB62", "U+AB63", "U+AB64", "U+AB65", "U+AB66", "U+AB67",
     "U+AB68", "U+AB70", "U+AB71", "U+AB72", "U+AB73", "U+AB74", "U+AB75", "U+AB76", "U+AB77",
     "U+AB78", "U+AB79", "U+AB7A", "U+AB7B", "U+AB7C", "U+AB7D", "U+AB7E", "U+AB7F", "U+AB80",
     "U+AB81", "U+AB82", "U+AB83", "U+AB84", "U+AB85", "U+AB86", "U+AB87", "U+AB88", "U+AB89",
     "U+AB8A", "U+AB8B", "U+AB8C", "U+AB8D", "U+AB8E", "U+AB8F", "U+AB90", "U+AB91", "U+AB92",
     "U+AB93", "U+AB94", "U+AB95", "U+AB96", "U+AB97", "U+AB98", "U+AB99", "U+AB9A", "U+AB9B",
     "U+AB9C", "U+AB9D", "U+AB9E", "U+AB9F", "U+ABA0", "U+ABA1", "U+ABA2", "U+ABA3", "U+ABA4",
     "U+ABA5", "U+ABA6", "U+ABA7", "U+ABA8", "U+ABA9", "U+ABAA", "U+ABAB", "U+ABAC", "U+ABAD",
     "U+ABAE", "U+ABAF", "U+ABB0", "U+ABB1", "U+ABB2", "U+ABB3", "U+ABB4", "U+ABB5", "U+ABB6",
     "U+ABB7", "U+ABB8", "U+ABB9", "U+ABBA", "U+ABBB", "U+ABBC", "U+ABBD", "U+ABBE", "U+ABBF",
     "U+FB00", "U+FB01", "U+FB02", "U+FB03", "U+FB04", "U+FB05", "U+FB06", "U+FB13", "U+FB14",
     "U+FB15", "U+FB16", "U+FB17", "U+FF21", "U+FF22", "U+FF23", "U+FF24", "U+FF25", "U+FF26",
     "U+FF27", "U+FF28", "U+FF29", "U+FF2A", "U+FF2B", "U+FF2C", "U+FF2D", "U+FF2E", "U+FF2F",
     "U+FF30", "U+FF31", "U+FF32", "U+FF33", "U+FF34", "U+FF35", "U+FF36", "U+FF37", "U+FF38",
     "U+FF39", "U+FF3A", "U+FF41", "U+FF42", "U+FF43", "U+FF44", "U+FF45", "U+FF46", "U+FF47",
     "U+FF48", "U+FF49", "U+FF4A", "U+FF4B", "U+FF4C", "U+FF4D", "U+FF4E", "U+FF4F", "U+FF50",
     "U+FF51", "U+FF52", "U+FF53", "U+FF54", "U+FF55", "U+FF56", "U+FF57", "U+FF58", "U+FF59",
     "U+FF5A", "U+10400", "U+10401", "U+10402", "U+10403", "U+10404", "U+10405", "U+10406",
     "U+10407", "U+10408", "U+10409", "U+1040A", "U+1040B", "U+1040C", "U+1040D", "U+1040E",
     "U+1040F", "U+10410", "U+10411", "U+10412", "U+10413", "U+10414", "U+10415", "U+10416",
     "U+10417", "U+10418", "U+10419", "U+1041A", "U+1041B", "U+1041C", "U+1041D", "U+1041E",
     "U+1041F", "U+10420", "U+10421", "U+10422", "U+10423", "U+10424", "U+10425", "U+10426",
     "U+10427", "U+10428", "U+10429", "U+1042A", "U+1042B", "U+1042C", "U+1042D", "U+1042E",
     "U+1042F", "U+10430", "U+10431", "U+10432", "U+10433", "U+10434", "U+10435", "U+10436",
     "U+10437", "U+10438", "U+10439", "U+1043A", "U+1043B", "U+1043C", "U+1043D", "U+1043E",
     "U+1043F", "U+10440", "U+10441", "U+10442", "U+10443", "U+10444", "U+10445", "U+10446",
     "U+10447", "U+10448", "U+10449", "U+1044A", "U+1044B", "U+1044C", "U+1044D", "U+1044E",
     "U+1044F", "U+104B0", "U+104B1", "U+104B2", "U+104B3", "U+104B4", "U+104B5", "U+104B6",
     "U+104B7", "U+104B8", "U+104B9", "U+104BA", "U+104BB", "U+104BC", "U+104BD", "U+104BE",
     "U+104BF", "U+104C0", "U+104C1", "U+104C2", "U+104C3", "U+104C4", "U+104C5", "U+104C6",
     "U+104C7", "U+104C8", "U+104C9", "U+104CA", "U+104CB", "U+104CC", "U+104CD", "U+104CE",
     "U+104CF", "U+104D0", "U+104D1", "U+104D2", "U+104D3", "U+104D8", "U+104D9", "U+104DA",
     "U+104DB", "U+104DC", "U+104DD", "U+104DE", "U+104DF", "U+104E0", "U+104E1", "U+104E2",
     "U+104E3", "U+104E4", "U+104E5", "U+104E6", "U+104E7", "U+104E8", "U+104E9", "U+104EA",
     "U+104EB", "U+104EC", "U+104ED", "U+104EE", "U+104EF", "U+104F0", "U+104F1", "U+104F2",
     "U+104F3", "U+104F4", "U+104F5", "U+104F6", "U+104F7", "U+104F8", "U+104F9", "U+104FA",
     "U+104FB", "U+10570", "U+10571", "U+10572", "U+10573", "U+10574", "U+10575", "U+10576",
     "U+10577", "U+10578", "U+10579", "U+1057A", "U+1057C", "U+1057D", "U+1057E", "U+1057F",
     "U+10580", "U+10581", "U+10582", "U+10583", "U+10584", "U+10585", "U+10586", "U+10587",
     "U+10588", "U+10589", "U+1058A", "U+1058C", "U+1058D", "U+1058E", "U+1058F", "U+10590",
     "U+10591", "U+10592", "U+10594", "U+10595", "U+10597", "U+10598", "U+10599", "U+1059A",
     "U+1059B", "U+1059C", "U+1059D", "U+1059E", "U+1059F", "U+105A0", "U+105A1", "U+105A3",
     "U+105A4", "U+105A5", "U+105A6", "U+105A7", "U+105A8", "U+105A9", "U+105AA", "U+105AB",
     "U+105AC", "U+105AD", "U+105AE", "U+105AF", "U+105B0", "U+105B1", "U+105B3", "U+105B4",
     "U+105B5", "U+105B6", "U+105B7", "U+105B8", "U+105B9", "U+105BB", "U+105BC", "U+10C80",
     "U+10C81", "U+10C82", "U+10C83", "U+10C84", "U+10C85", "U+10C86", "U+10C87", "U+10C88",
     "U+10C89", "U+10C8A", "U+10C8B", "U+10C8C", "U+10C8D", "U+10C8E", "U+10C8F", "U+10C90",
     "U+10C91", "U+10C92", "U+10C93", "U+10C94", "U+10C95", "U+10C96", "U+10C97", "U+10C98",
     "U+10C99", "U+10C9A", "U+10C9B", "U+10C9C", "U+10C9D", "U+10C9E", "U+10C9F", "U+10CA0",
     "U+10CA1", "U+10CA2", "U+10CA3", "U+10CA4", "U+10CA5", "U+10CA6", "U+10CA7", "U+10CA8",
     "U+10CA9", "U+10CAA", "U+10CAB", "U+10CAC", "U+10CAD", "U+10CAE", "U+10CAF", "U+10CB0",
     "U+10CB1", "U+10CB2", "U+10CC0", "U+10CC1", "U+10CC2", "U+10CC3", "U+10CC4", "U+10CC5",
     "U+10CC6", "U+10CC7", "U+10CC8", "U+10CC9", "U+10CCA", "U+10CCB", "U+10CCC", "U+10CCD",
     "U+10CCE", "U+10CCF", "U+10CD0", "U+10CD1", "U+10CD2", "U+10CD3", "U+10CD4", "U+10CD5",
     "U+10CD6", "U+10CD7", "U+10CD8", "U+10CD9", "U+10CDA", "U+10CDB", "U+10CDC", "U+10CDD",
     "U+10CDE", "U+10CDF", "U+10CE0", "U+10CE1", "U+10CE2", "U+10CE3", "U+10CE4", "U+10CE5",
     "U+10CE6", "U+10CE7", "U+10CE8", "U+10CE9", "U+10CEA", "U+10CEB", "U+10CEC", "U+10CED",
     "U+10CEE", "U+10CEF", "U+10CF0", "U+10CF1", "U+10CF2", "U+10D50", "U+10D51", "U+10D52",
     "U+10D53", "U+10D54", "U+10D55", "U+10D56", "U+10D57", "U+10D58", "U+10D59", "U+10D5A",
     "U+10D5B", "U+10D5C", "U+10D5D", "U+10D5E", "U+10D5F", "U+10D60", "U+10D61", "U+10D62",
     "U+10D63", "U+10D64", "U+10D65", "U+10D70", "U+10D71", "U+10D72", "U+10D73", "U+10D74",
     "U+10D75", "U+10D76", "U+10D77", "U+10D78", "U+10D79", "U+10D7A", "U+10D7B", "U+10D7C",
     "U+10D7D", "U+10D7E", "U+10D7F", "U+10D80", "U+10D81", "U+10D82", "U+10D83", "U+10D84",
     "U+10D85", "U+118A0", "U+118A1", "U+118A2", "U+118A3", "U+118A4", "U+118A5", "U+118A6",
     "U+118A7", "U+118A8", "U+118A9", "U+118AA", "U+118AB", "U+118AC", "U+118AD", "U+118AE",
     "U+118AF", "U+118B0", "U+118B1", "U+118B2", "U+118B3", "U+118B4", "U+118B5", "U+118B6",
     "U+118B7", "U+118B8", "U+118B9", "U+118BA", "U+118BB", "U+118BC", "U+118BD", "U+118BE",
     "U+118BF", "U+118C0", "U+118C1", "U+118C2", "U+118C3", "U+118C4", "U+118C5", "U+118C6",
     "U+118C7", "U+118C8", "U+118C9", "U+118CA", "U+118CB", "U+118CC", "U+118CD", "U+118CE",
     "U+118CF", "U+118D0", "U+118D1", "U+118D2", "U+118D3", "U+118D4", "U+118D5", "U+118D6",
     "U+118D7", "U+118D8", "U+118D9", "U+118DA", "U+118DB", "U+118DC", "U+118DD", "U+118DE",
     "U+118DF", "U+16E40", "U+16E41", "U+16E42", "U+16E43", "U+16E44", "U+16E45", "U+16E46",
     "U+16E47", "U+16E48", "U+16E49", "U+16E4A", "U+16E4B", "U+16E4C", "U+16E4D", "U+16E4E",
     "U+16E4F", "U+16E50", "U+16E51", "U+16E52", "U+16E53", "U+16E54", "U+16E55", "U+16E56",
     "U+16E57", "U+16E58", "U+16E59", "U+16E5A", "U+16E5B", "U+16E5C", "U+16E5D", "U+16E5E",
     "U+16E5F", "U+16E60", "U+16E61", "U+16E62", "U+16E63", "U+16E64", "U+16E65", "U+16E66",
     "U+16E67", "U+16E68", "U+16E69", "U+16E6A", "U+16E6B", "U+16E6C", "U+16E6D", "U+16E6E",
     "U+16E6F", "U+16E70", "U+16E71", "U+16E72", "U+16E73", "U+16E74", "U+16E75", "U+16E76",
     "U+16E77", "U+16E78", "U+16E79", "U+16E7A", "U+16E7B", "U+16E7C", "U+16E7D", "U+16E7E",
     "U+16E7F", "U+16EA0", "U+16EA1", "U+16EA2", "U+16EA3", "U+16EA4", "U+16EA5", "U+16EA6",
     "U+16EA7", "U+16EA8", "U+16EA9", "U+16EAA", "U+16EAB", "U+16EAC", "U+16EAD", "U+16EAE",
     "U+16EAF", "U+16EB0", "U+16EB1", "U+16EB2", "U+16EB3", "U+16EB4", "U+16EB5", "U+16EB6",
     "U+16EB7", "U+16EB8", "U+16EBB", "U+16EBC", "U+16EBD", "U+16EBE", "U+16EBF", "U+16EC0",
     "U+16EC1", "U+16EC2", "U+16EC3", "U+16EC4", "U+16EC5", "U+16EC6", "U+16EC7", "U+16EC8",
     "U+16EC9", "U+16ECA", "U+16ECB", "U+16ECC", "U+16ECD", "U+16ECE", "U+16ECF", "U+16ED0",
     "U+16ED1", "U+16ED2", "U+16ED3", "U+1D400", "U+1D401", "U+1D402", "U+1D403", "U+1D404",
     "U+1D405", "U+1D406", "U+1D407", "U+1D408", "U+1D409", "U+1D40A", "U+1D40B", "U+1D40C",
     "U+1D40D", "U+1D40E", "U+1D40F", "U+1D410", "U+1D411", "U+1D412", "U+1D413", "U+1D414",
     "U+1D415", "U+1D416", "U+1D417", "U+1D418", "U+1D419", "U+1D41A", "U+1D41B", "U+1D41C",
     "U+1D41D", "U+1D41E", "U+1D41F", "U+1D420", "U+1D421", "U+1D422", "U+1D423", "U+1D424",
     "U+1D425", "U+1D426", "U+1D427", "U+1D428", "U+1D429", "U+1D42A", "U+1D42B", "U+1D42C",
     "U+1D42D", "U+1D42E", "U+1D42F", "U+1D430", "U+1D431", "U+1D432", "U+1D433", "U+1D434",
     "U+1D435", "U+1D436", "U+1D437", "U+1D438", "U+1D439", "U+1D43A", "U+1D43B", "U+1D43C",
     "U+1D43D", "U+1D43E", "U+1D43F", "U+1D440", "U+1D441", "U+1D442", "U+1D443", "U+1D444",
     "U+1D445", "U+1D446", "U+1D447", "U+1D448", "U+1D449", "U+1D44A", "U+1D44B", "U+1D44C",
     "U+1D44D", "U+1D44E", "U+1D44F", "U+1D450", "U+1D451", "U+1D452", "U+1D453", "U+1D454",
     "U+1D456", "U+1D457", "U+1D458", "U+1D459", "U+1D45A", "U+1D45B", "U+1D45C", "U+1D45D",
     "U+1D45E", "U+1D45F", "U+1D460", "U+1D461", "U+1D462", "U+1D463", "U+1D464", "U+1D465",
     "U+1D466", "U+1D467", "U+1D468", "U+1D469", "U+1D46A", "U+1D46B", "U+1D46C", "U+1D46D",
     "U+1D46E", "U+1D46F", "U+1D470", "U+1D471", "U+1D472", "U+1D473", "U+1D474", "U+1D475",
     "U+1D476", "U+1D477", "U+1D478", "U+1D479", "U+1D47A", "U+1D47B", "U+1D47C", "U+1D47D",
     "U+1D47E", "U+1D47F", "U+1D480", "U+1D481", "U+1D482", "U+1D483", "U+1D484", "U+1D485",
     "U+1D486", "U+1D487", "U+1D488", "U+1D489", "U+1D48A", "U+1D48B", "U+1D48C", "U+1D48D",
     "U+1D48E", "U+1D48F", "U+1D490", "U+1D491", "U+1D492", "U+1D493", "U+1D494", "U+1D495",
     "U+1D496", "U+1D497", "U+1D498", "U+1D499", "U+1D49A", "U+1D49B", "U+1D49C", "U+1D49E",
     "U+1D49F", "U+1D4A2", "U+1D4A5", "U+1D4A6", "U+1D4A9", "U+1D4AA", "U+1D4AB", "U+1D4AC",
     "U+1D4AE", "U+1D4AF", "U+1D4B0", "U+1D4B1", "U+1D4B2", "U+1D4B3", "U+1D4B4", "U+1D4B5",
     "U+1D4B6", "U+1D4B7", "U+1D4B8", "U+1D4B9", "U+1D4BB", "U+1D4BD", "U+1D4BE", "U+1D4BF",
     "U+1D4C0", "U+1D4C1", "U+1D4C2", "U+1D4C3", "U+1D4C5", "U+1D4C6", "U+1D4C7", "U+1D4C8",
     "U+1D4C9", "U+1D4CA", "U+1D4CB", "U+1D4CC", "U+1D4CD", "U+1D4CE", "U+1D4CF", "U+1D4D0",
     "U+1D4D1", "U+1D4D2", "U+1D4D3", "U+1D4D4", "U+1D4D5", "U+1D4D6", "U+1D4D7", "U+1D4D8",
     "U+1D4D9", "U+1D4DA", "U+1D4DB", "U+1D4DC", "U+1D4DD", "U+1D4DE", "U+1D4DF", "U+1D4E0",
     "U+1D4E1", "U+1D4E2", "U+1D4E3", "U+1D4E4", "U+1D4E5", "U+1D4E6", "U+1D4E7", "U+1D4E8",
     "U+1D4E9", "U+1D4EA", "U+1D4EB", "U+1D4EC", "U+1D4ED", "U+1D4EE", "U+1D4EF", "U+1D4F0",
     "U+1D4F1", "U+1D4F2", "U+1D4F3", "U+1D4F4", "U+1D4F5", "U+1D4F6", "U+1D4F7", "U+1D4F8",
     "U+1D4F9", "U+1D4FA", "U+1D4FB", "U+1D4FC", "U+1D4FD", "U+1D4FE", "U+1D4FF", "U+1D500",
     "U+1D501", "U+1D502", "U+1D503", "U+1D504", "U+1D505", "U+1D507", "U+1D508", "U+1D509",
     "U+1D50A", "U+1D50D", "U+1D50E", "U+1D50F", "U+1D510", "U+1D511", "U+1D512", "U+1D513",
     "U+1D514", "U+1D516", "U+1D517", "U+1D518", "U+1D519", "U+1D51A", "U+1D51B", "U+1D51C",
     "U+1D51E", "U+1D51F", "U+1D520", "U+1D521", "U+1D522", "U+1D523", "U+1D524", "U+1D525",
     "U+1D526", "U+1D527", "U+1D528", "U+1D529", "U+1D52A", "U+1D52B", "U+1D52C", "U+1D52D",
     "U+1D52E", "U+1D52F", "U+1D530", "U+1D531", "U+1D532", "U+1D533", "U+1D534", "U+1D535",
     "U+1D536", "U+1D537", "U+1D538", "U+1D539", "U+1D53B", "U+1D53C", "U+1D53D", "U+1D53E",
     "U+1D540", "U+1D541", "U+1D542", "U+1D543", "U+1D544", "U+1D546", "U+1D54A", "U+1D54B",
     "U+1D54C", "U+1D54D", "U+1D54E", "U+1D54F", "U+1D550", "U+1D552", "U+1D553", "U+1D554",
     "U+1D555", "U+1D556", "U+1D557", "U+1D558", "U+1D559", "U+1D55A", "U+1D55B", "U+1D55C",
     "U+1D55D", "U+1D55E", "U+1D55F", "U+1D560", "U+1D561", "U+1D562", "U+1D563", "U+1D564",
     "U+1D565", "U+1D566", "U+1D567", "U+1D568", "U+1D569", "U+1D56A", "U+1D56B", "U+1D56C",
     "U+1D56D", "U+1D56E", "U+1D56F", "U+1D570", "U+1D571", "U+1D572", "U+1D573", "U+1D574",
     "U+1D575", "U+1D576", "U+1D577", "U+1D578", "U+1D579", "U+1D57A", "U+1D57B", "U+1D57C",
     "U+1D57D", "U+1D57E", "U+1D57F", "U+1D580", "U+1D581", "U+1D582", "U+1D583", "U+1D584",
     "U+1D585", "U+1D586", "U+1D587", "U+1D588", "U+1D589", "U+1D58A", "U+1D58B", "U+1D58C",
     "U+1D58D", "U+1D58E", "U+1D58F", "U+1D590", "U+1D591", "U+1D592", "U+1D593", "U+1D594",
     "U+1D595", "U+1D596", "U+1D597", "U+1D598", "U+1D599", "U+1D59A", "U+1D59B", "U+1D59C",
     "U+1D59D", "U+1D59E", "U+1D59F", "U+1D5A0", "U+1D5A1", "U+1D5A2", "U+1D5A3", "U+1D5A4",
     "U+1D5A5", "U+1D5A6", "U+1D5A7", "U+1D5A8", "U+1D5A9", "U+1D5AA", "U+1D5AB", "U+1D5AC",
     "U+1D5AD", "U+1D5AE", "U+1D5AF", "U+1D5B0", "U+1D5B1", "U+1D5B2", "U+1D5B3", "U+1D5B4",
     "U+1D5B5", "U+1D5B6", "U+1D5B7", "U+1D5B8", "U+1D5B9", "U+1D5BA", "U+1D5BB", "U+1D5BC",
     "U+1D5BD", "U+1D5BE", "U+1D5BF", "U+1D5C0", "U+1D5C1", "U+1D5C2", "U+1D5C3", "U+1D5C4",
     "U+1D5C5", "U+1D5C6", "U+1D5C7", "U+1D5C8", "U+1D5C9", "U+1D5CA", "U+1D5CB", "U+1D5CC",
     "U+1D5CD", "U+1D5CE", "U+1D5CF", "U+1D5D0", "U+1D5D1", "U+1D5D2", "U+1D5D3", "U+1D5D4",
     "U+1D5D5", "U+1D5D6", "U+1D5D7", "U+1D5D8", "U+1D5D9", "U+1D5DA", "U+1D5DB", "U+1D5DC",
     "U+1D5DD", "U+1D5DE", "U+1D5DF", "U+1D5E0", "U+1D5E1", "U+1D5E2", "U+1D5E3", "U+1D5E4",
     "U+1D5E5", "U+1D5E6", "U+1D5E7", "U+1D5E8", "U+1D5E9", "U+1D5EA", "U+1D5EB", "U+1D5EC",
     "U+1D5ED", "U+1D5EE", "U+1D5EF", "U+1D5F0", "U+1D5F1", "U+1D5F2", "U+1D5F3", "U+1D5F4",
     "U+1D5F5", "U+1D5F6", "U+1D5F7", "U+1D5F8", "U+1D5F9", "U+1D5FA", "U+1D5FB", "U+1D5FC",
     "U+1D5FD", "U+1D5FE", "U+1D5FF", "U+1D600", "U+1D601", "U+1D602", "U+1D603", "U+1D604",
     "U+1D605", "U+1D606", "U+1D607", "U+1D608", "U+1D609", "U+1D60A", "U+1D60B", "U+1D60C",
     "U+1D60D", "U+1D60E", "U+1D60F", "U+1D610", "U+1D611", "U+1D612", "U+1D613", "U+1D614",
     "U+1D615", "U+1D616", "U+1D617", "U+1D618", "U+1D619", "U+1D61A", "U+1D61B", "U+1D61C",
     "U+1D61D", "U+1D61E", "U+1D61F", "U+1D620", "U+1D621", "U+1D622", "U+1D623", "U+1D624",
     "U+1D625", "U+1D626", "U+1D627", "U+1D628", "U+1D629", "U+1D62A", "U+1D62B", "U+1D62C",
     "U+1D62D", "U+1D62E", "U+1D62F", "U+1D630", "U+1D631", "U+1D632", "U+1D633", "U+1D634",
     "U+1D635", "U+1D636", "U+1D637", "U+1D638", "U+1D639", "U+1D63A", "U+1D63B", "U+1D63C",
     "U+1D63D", "U+1D63E", "U+1D63F", "U+1D640", "U+1D641", "U+1D642", "U+1D643", "U+1D644",
     "U+1D645", "U+1D646", "U+1D647", "U+1D648", "U+1D649", "U+1D64A", "U+1D64B", "U+1D64C",
     "U+1D64D", "U+1D64E", "U+1D64F", "U+1D650", "U+1D651", "U+1D652", "U+1D653", "U+1D654",
     "U+1D655", "U+1D656", "U+1D657", "U+1D658", "U+1D659", "U+1D65A", "U+1D65B", "U+1D65C",
     "U+1D65D", "U+1D65E", "U+1D65F", "U+1D660", "U+1D661", "U+1D662", "U+1D663", "U+1D664",
     "U+1D665", "U+1D666", "U+1D667", "U+1D668", "U+1D669", "U+1D66A", "U+1D66B", "U+1D66C",
     "U+1D66D", "U+1D66E", "U+1D66F", "U+1D670", "U+1D671", "U+1D672", "U+1D673", "U+1D674",
     "U+1D675", "U+1D676", "U+1D677", "U+1D678", "U+1D679", "U+1D67A", "U+1D67B", "U+1D67C",
     "U+1D67D", "U+1D67E", "U+1D67F", "U+1D680", "U+1D681", "U+1D682", "U+1D683", "U+1D684",
     "U+1D685", "U+1D686", "U+1D687", "U+1D688", "U+1D689", "U+1D68A", "U+1D68B", "U+1D68C",
     "U+1D68D", "U+1D68E", "U+1D68F", "U+1D690", "U+1D691", "U+1D692", "U+1D693", "U+1D694",
     "U+1D695", "U+1D696", "U+1D697", "U+1D698", "U+1D699", "U+1D69A", "U+1D69B", "U+1D69C",
     "U+1D69D", "U+1D69E", "U+1D69F", "U+1D6A0", "U+1D6A1", "U+1D6A2", "U+1D6A3", "U+1D6A4",
     "U+1D6A5", "U+1D6A8", "U+1D6A9", "U+1D6AA", "U+1D6AB", "U+1D6AC", "U+1D6AD", "U+1D6AE",
     "U+1D6AF", "U+1D6B0", "U+1D6B1", "U+1D6B2", "U+1D6B3", "U+1D6B4", "U+1D6B5", "U+1D6B6",
     "U+1D6B7", "U+1D6B8", "U+1D6B9", "U+1D6BA", "U+1D6BB", "U+1D6BC", "U+1D6BD", "U+1D6BE",
     "U+1D6BF", "U+1D6C0", "U+1D6C2", "U+1D6C3", "U+1D6C4", "U+1D6C5", "U+1D6C6", "U+1D6C7",
     "U+1D6C8", "U+1D6C9", "U+1D6CA", "U+1D6CB", "U+1D6CC", "U+1D6CD", "U+1D6CE", "U+1D6CF",
     "U+1D6D0", "U+1D6D1", "U+1D6D2", "U+1D6D3", "U+1D6D4", "U+1D6D5", "U+1D6D6", "U+1D6D7",
     "U+1D6D8", "U+1D6D9", "U+1D6DA", "U+1D6DC", "U+1D6DD", "U+1D6DE", "U+1D6DF", "U+1D6E0",
     "U+1D6E1", "U+1D6E2", "U+1D6E3", "U+1D6E4", "U+1D6E5", "U+1D6E6", "U+1D6E7", "U+1D6E8",
     "U+1D6E9", "U+1D6EA", "U+1D6EB", "U+1D6EC", "U+1D6ED", "U+1D6EE", "U+1D6EF", "U+1D6F0",
     "U+1D6F1", "U+1D6F2", "U+1D6F3", "U+1D6F4", "U+1D6F5", "U+1D6F6", "U+1D6F7", "U+1D6F8",
     "U+1D6F9", "U+1D6FA", "U+1D6FC", "U+1D6FD", "U+1D6FE", "U+1D6FF", "U+1D700", "U+1D701",
     "U+1D702", "U+1D703", "U+1D704", "U+1D705", "U+1D706", "U+1D707", "U+1D708", "U+1D709",
     "U+1D70A", "U+1D70B", "U+1D70C", "U+1D70D", "U+1D70E", "U+1D70F", "U+1D710", "U+1D711",
     "U+1D712", "U+1D713", "U+1D714", "U+1D716", "U+1D717", "U+1D718", "U+1D719", "U+1D71A",
     "U+1D71B", "U+1D71C", "U+1D71D", "U+1D71E", "U+1D71F", "U+1D720", "U+1D721", "U+1D722",
     "U+1D723", "U+1D724", "U+1D725", "U+1D726", "U+1D727", "U+1D728", "U+1D729", "U+1D72A",
     "U+1D72B", "U+1D72C", "U+1D72D", "U+1D72E", "U+1D72F", "U+1D730", "U+1D731", "U+1D732",
     "U+1D733", "U+1D734", "U+1D736", "U+1D737", "U+1D738", "U+1D739", "U+1D73A", "U+1D73B",
     "U+1D73C", "U+1D73D", "U+1D73E", "U+1D73F", "U+1D740", "U+1D741", "U+1D742", "U+1D743",
     "U+1D744", "U+1D745", "U+1D746", "U+1D747", "U+1D748", "U+1D749", "U+1D74A", "U+1D74B",
     "U+1D74C", "U+1D74D", "U+1D74E", "U+1D750", "U+1D751", "U+1D752", "U+1D753", "U+1D754",
     "U+1D755", "U+1D756", "U+1D757", "U+1D758", "U+1D759", "U+1D75A", "U+1D75B", "U+1D75C",
     "U+1D75D", "U+1D75E", "U+1D75F", "U+1D760", "U+1D761", "U+1D762", "U+1D763", "U+1D764",
     "U+1D765", "U+1D766", "U+1D767", "U+1D768", "U+1D769", "U+1D76A", "U+1D76B", "U+1D76C",
     "U+1D76D", "U+1D76E", "U+1D770", "U+1D771", "U+1D772", "U+1D773", "U+1D774", "U+1D775",
     "U+1D776", "U+1D777", "U+1D778", "U+1D779", "U+1D77A", "U+1D77B", "U+1D77C", "U+1D77D",
     "U+1D77E", "U+1D77F", "U+1D780", "U+1D781", "U+1D782", "U+1D783", "U+1D784", "U+1D785",
     "U+1D786", "U+1D787", "U+1D788", "U+1D78A", "U+1D78B", "U+1D78C", "U+1D78D", "U+1D78E",
     "U+1D78F", "U+1D790", "U+1D791", "U+1D792", "U+1D793", "U+1D794", "U+1D795", "U+1D796",
     "U+1D797", "U+1D798", "U+1D799", "U+1D79A", "U+1D79B", "U+1D79C", "U+1D79D", "U+1D79E",
     "U+1D79F", "U+1D7A0", "U+1D7A1", "U+1D7A2", "U+1D7A3", "U+1D7A4", "U+1D7A5", "U+1D7A6",
     "U+1D7A7", "U+1D7A8", "U+1D7AA", "U+1D7AB", "U+1D7AC", "U+1D7AD", "U+1D7AE", "U+1D7AF",
     "U+1D7B0", "U+1D7B1", "U+1D7B2", "U+1D7B3", "U+1D7B4", "U+1D7B5", "U+1D7B6", "U+1D7B7",
     "U+1D7B8", "U+1D7B9", "U+1D7BA", "U+1D7BB", "U+1D7BC", "U+1D7BD", "U+1D7BE", "U+1D7BF",
     "U+1D7C0", "U+1D7C1", "U+1D7C2", "U+1D7C4", "U+1D7C5", "U+1D7C6", "U+1D7C7", "U+1D7C8",
     "U+1D7C9", "U+1D7CA", "U+1D7CB", "U+1DF00", "U+1DF01", "U+1DF02", "U+1DF03", "U+1DF04",
     "U+1DF05", "U+1DF06", "U+1DF07", "U+1DF08", "U+1DF09", "U+1DF0B", "U+1DF0C", "U+1DF0D",
     "U+1DF0E", "U+1DF0F", "U+1DF10", "U+1DF11", "U+1DF12", "U+1DF13", "U+1DF14", "U+1DF15",
     "U+1DF16", "U+1DF17", "U+1DF18", "U+1DF19", "U+1DF1A", "U+1DF1B", "U+1DF1C", "U+1DF1D",
     "U+1DF1E", "U+1DF25", "U+1DF26", "U+1DF27", "U+1DF28", "U+1DF29", "U+1DF2A", "U+1E900",
     "U+1E901", "U+1E902", "U+1E903", "U+1E904", "U+1E905", "U+1E906", "U+1E907", "U+1E908",
     "U+1E909", "U+1E90A", "U+1E90B", "U+1E90C", "U+1E90D", "U+1E90E", "U+1E90F", "U+1E910",
     "U+1E911", "U+1E912", "U+1E913", "U+1E914", "U+1E915", "U+1E916", "U+1E917", "U+1E918",
     "U+1E919", "U+1E91A", "U+1E91B", "U+1E91C", "U+1E91D", "U+1E91E", "U+1E91F", "U+1E920",
     "U+1E921", "U+1E922", "U+1E923", "U+1E924", "U+1E925", "U+1E926", "U+1E927", "U+1E928",
     "U+1E929", "U+1E92A", "U+1E92B", "U+1E92C", "U+1E92D", "U+1E92E", "U+1E92F", "U+1E930",
     "U+1E931", "U+1E932", "U+1E933", "U+1E934", "U+1E935", "U+1E936", "U+1E937", "U+1E938",
     "U+1E939", "U+1E93A", "U+1E93B", "U+1E93C", "U+1E93D", "U+1E93E", "U+1E93F", "U+1E940",
     "U+1E941", "U+1E942", "U+1E943", "U+1F130", "U+1F131", "U+1F132", "U+1F133", "U+1F134",
     "U+1F135", "U+1F136", "U+1F137", "U+1F138", "U+1F139", "U+1F13A", "U+1F13B", "U+1F13C",
     "U+1F13D", "U+1F13E", "U+1F13F", "U+1F140", "U+1F141", "U+1F142", "U+1F143", "U+1F144",
     "U+1F145", "U+1F146", "U+1F147", "U+1F148", "U+1F149", "U+1F150", "U+1F151", "U+1F152",
     "U+1F153", "U+1F154", "U+1F155", "U+1F156", "U+1F157", "U+1F158", "U+1F159", "U+1F15A",
     "U+1F15B", "U+1F15C", "U+1F15D", "U+1F15E", "U+1F15F", "U+1F160", "U+1F161", "U+1F162",
     "U+1F163", "U+1F164", "U+1F165", "U+1F166", "U+1F167", "U+1F168", "U+1F169", "U+1F170",
     "U+1F171", "U+1F172", "U+1F173", "U+1F174", "U+1F175", "U+1F176", "U+1F177", "U+1F178",
     "U+1F179", "U+1F17A", "U+1F17B", "U+1F17C", "U+1F17D", "U+1F17E", "U+1F17F", "U+1F180",
     "U+1F181", "U+1F182", "U+1F183", "U+1F184", "U+1F185", "U+1F186", "U+1F187", "U+1F188",
     "U+1F189"}

LowerCaseTable ==
    [c \in {LowerCaseFrom[i] : i \in 1..Len(LowerCaseFrom)} |->
        LowerCaseTo[CHOOSE i \in 1..Len(LowerCaseFrom) : LowerCaseFrom[i] = c]]

\* The characters that lower-casing changes.
UpperCase == DOMAIN LowerCaseTable \cup {"U+0130"}

\* The lower-case form of a string of the one character c: the capital I
\* with dot above becomes i followed by the combining dot above, a character
\* of the table its mapping, every other character itself.
toLowerCaseChar(c) ==
    IF c = "U+0130" THEN <<"i", "U+0307">>
    ELSE IF c \in DOMAIN LowerCaseTable THEN <<LowerCaseTable[c]>>
    ELSE <<c>>

\* The condition Final_Sigma on position i of str: a cased character comes
\* before it and none after it, case-ignorable characters being skipped.
FinalSigma(str, i) ==
    /\ \E j \in 1..(i - 1) :
          /\ str[j] \in CasedNotIgnorable
          /\ \A k \in (j + 1)..(i - 1) : str[k] \in CaseIgnorable
    /\ ~\E j \in (i + 1)..Len(str) :
          /\ str[j] \in CasedNotIgnorable
          /\ \A k \in (i + 1)..(j - 1) : str[k] \in CaseIgnorable

RECURSIVE lowerFrom(_, _)
lowerFrom(str, i) ==
    IF i > Len(str) THEN <<>>
    ELSE (IF str[i] = "U+03A3" /\ FinalSigma(str, i)
          THEN <<"U+03C2">>
          ELSE toLowerCaseChar(str[i])) \o lowerFrom(str, i + 1)

\* str.toLowerCase(): every character by its mapping, a capital sigma at the
\* end of a word by the final small sigma.
toLowerCase(str) == lowerFrom(str, 1)

RECURSIVE trimStart(_)
trimStart(str) ==
    IF str # <<>> /\ IsSpace(str[1]) THEN trimStart(Tail(str)) ELSE str

RECURSIVE trimEnd(_)
trimEnd(str) ==
    IF str # <<>> /\ IsSpace(str[Len(str)])
    THEN trimEnd(SubSeq(str, 1, Len(str) - 1))
    ELSE str

trim(str) == trimEnd(trimStart(str))

\* Variant: trims but keeps the case.
normalizeNoLower(topic) == trim(topic)

\* Entries of a topic array that are no strings: an index without an element
\* (left by an assignment past the end) and the value undefined (what a
\* spread copy makes of such an index, and what a callback receives for it).
Hole == <<"hole">>

Undefined == <<"undefined">>

\* normalize(topic): (topic || '').trim().toLowerCase()
normalize(topic) ==
    IF topic \in {Hole, Undefined} THEN <<>>
    ELSE toLowerCase(trim(topic))

\* isDuplicate(topics, topic); some() skips the indices without an element.
isDuplicate(topics, topic) ==
    \E i \in 1..Len(topics) :
       topics[i] # Hole /\ normalize(topics[i]) = normalize(topic)

\* [...topics]: the copy has undefined where topics has no element.
spread(topics) ==
    [i \in 1..Len(topics) |-> IF topics[i] = Hole THEN Undefined ELSE topics[i]]

\* topics with next[index] = norm, index counted from 0; an index past the
\* end leaves the indices between without an element.
assignAt(topics, index, norm) ==
    IF index < Len(topics) THEN [topics EXCEPT ![index + 1] = norm]
    ELSE topics \o [i \in 1..(index - Len(topics)) |-> Hole] \o <<norm>>

\* The outcome of a call: the thrown message or the returned list, and the
\* argument array as the call left it.
Thrown(message, arg) ==
    [threw |-> TRUE, message |-> message, value |-> <<>>, arg |-> arg]

Returned(value, arg) ==
    [threw |-> FALSE, message |-> "", value |-> value, arg |-> arg]

\* addTopic(topics, topic)
addTopic(topics, topic) ==
    LET norm == normalize(topic)
    IN  IF norm = <<>> THEN Thrown("Topic cannot be blank.", topics)
        ELSE IF isDuplicate(topics, norm)
             THEN Thrown("Topic already exists.", topics)
             ELSE Returned(Append(spread(topics), norm), topics)

\* Variant: the duplicate search does not skip the edited entry.
editTopicAnyIndex(topics, index, topic) ==
    LET norm == normalize(topic)
    IN  IF norm = <<>> THEN Thrown("Topic cannot be blank.", topics)
        ELSE IF \E i \in 1..Len(topics) : normalize(topics[i]) = norm
             THEN Thrown("Topic already exists.", topics)
             ELSE Returned(assignAt(topics, index, norm), topics)

\* editTopic(topics, index, topic), index counted from 0.
editTopic(topics, index, topic) ==
    LET norm == normalize(topic)
    IN  IF norm = <<>> THEN Thrown("Topic cannot be blank.", topics)
        ELSE IF \E i \in 1..Len(topics) :
                    normalize(topics[i]) = norm /\ (i - 1) # index
             THEN Thrown("Topic already exists.", topics)
             ELSE Returned(assignAt(topics, index, norm), topics)

\* removeTopic(topics, index): a copy without the entry at index; splice
\* removes nothing at an index past the end.
removeTopic(topics, index) ==
    Returned(IF index < Len(topics) THEN RemoveAt(topics, index + 1) ELSE topics,
             topics)

\* saveTopics(topics): chrome.storage.local.set({ topics }, resolve); the
\* write joins the writes in flight, and the handler op waits for it.
saveTopics(writes, topics, op) == Append(writes, [topics |-> topics, op |-> op])

\* The rows of the rendered list, by index: forEach renders one row per
\* element, in edit mode when its index is editingIndex, else in read mode.
Rows == {i \in 0..(Len(popup.rendered.topics) - 1) : popup.rendered.topics[i + 1] # Hole}

ReadRows == Rows \ popup.rendered.editingIndex

EditRows == Rows \cap popup.rendered.editingIndex

TopicOp(op, raw, index, r) ==
    [op |-> op, raw |-> raw, index |-> index, threw |-> r.threw,
     before |-> popup.topics, stored |-> loadTopics(storage), arg |-> r.arg]

\* The synchronous part of handleAdd, onConfirmEdit and onRemove: clearError(),
\* the call r of the topic function, then either topics = next and
\* saveTopics(topics), or setError(String(msg)).
TopicHandler(op, raw, index, r) ==
    /\ popup.pc = "ready"
    /\ Len(popup.writes) < MaxWrites
    /\ popup' = IF r.threw
                THEN [popup EXCEPT !.error = r.message,
                                   !.input = IF op = "add" THEN raw ELSE @,
                                   !.last = TopicOp(op, raw, index, r)]
                ELSE [popup EXCEPT !.error = "",
                                   !.input = IF op = "add" THEN raw ELSE @,
                                   !.topics = r.value,
                                   !.writes = saveTopics(@, r.value, op),
                                   !.last = TopicOp(op, raw, index, r)]
    /\ UNCHANGED <<storage, contentVars, mapCall, mapOut, gw, availability, sw,
                   sessions, trace, shorts>>

\* handleAdd(): the user typed raw, which getInput() reads, and clicked Add.
handleAdd(raw) ==
    /\ TopicHandler("add", raw, 0, addTopic(popup.topics, raw))

\* onStartEdit(index), from a row rendered in read mode: clearError(),
\* editingIndex = index, render.
onStartEdit(index) ==
    /\ popup.pc = "ready"
    /\ index \in ReadRows
    /\ popup' = [popup EXCEPT !.error = "",
                              !.editingIndex = {index},
                              !.rendered = [topics |-> popup.topics,
                                            editingIndex |-> {index}]]
    /\ UNCHANGED <<storage, contentVars, mapCall, mapOut, gw, availability, sw,
                   sessions, trace, shorts>>

\* onConfirmEdit(index, updated), from the row that is rendered as edited.
onConfirmEdit(index, updated) ==
    /\ index \in EditRows
    /\ TopicHandler("edit", updated, index, editTopic(popup.topics, index, updated))

\* onRemove(index), from a row rendered in read mode.
onRemove(index) ==
    /\ index \in ReadRows
    /\ TopicHandler("remove", <<>>, index, removeTopic(popup.topics, index))

\* The write issued k-th of those in flight completes: the store holds its
\* list, and the handler that awaited it resumes: editingIndex = null after
\* an edit, the in-memory list is rendered, and the input is emptied after
\* an add.  The handlers do not wait for one another, and nothing in the
\* code orders the callbacks of overlapping set() calls: any write in
\* flight may be the next to complete.
WriteDone(k) ==
    /\ k \in Indices(popup.writes)
    /\ LET w == popup.writes[k]
           editing == IF w.op = "edit" THEN {} ELSE popup.editingIndex
       IN  /\ storage' = [storage EXCEPT !.hasTopics = TRUE, !.topics = w.topics]
           /\ popup' = [popup EXCEPT !.writes = RemoveAt(@, k),
                                     !.editingIndex = editing,
                                     !.rendered = [topics |-> popup.topics,
                                                   editingIndex |-> editing],
                                     !.input = IF w.op = "add" THEN <<>> ELSE @]
    /\ UNCHANGED <<contentVars, mapCall, mapOut, gw, availability, sw,
                   sessions, trace, shorts>>

\* initializeHideUnwanted() resumes after `await loadTopics()` and runs to
\* its read of the stored video action.
TopicsLoaded ==
    /\ popup.pc = "loadTopics"
    /\ popup' = [popup EXCEPT !.pc = "getVideoAction", !.topics = loadTopics(storage)]
    /\ UNCHANGED <<storage, contentVars, mapCall, mapOut, gw, availability, sw,
                   sessions, trace, shorts>>

\* The read of the stored video action settles.  When it resolves (ok),
\* videoAction = result.videoAction || 'delete'; when none is stored the
\* default is written and awaited, else the radio buttons are set and the
\* sensitivity is read.  When it rejects, the catch block logs the error:
\* videoAction stays 'delete', nothing is written, the radio buttons are set
\* and the sensitivity is read.
VideoActionLoaded(ok) ==
    /\ popup.pc = "getVideoAction"
    /\ popup' = IF ~ok
                THEN [popup EXCEPT !.pc = "getSensitivity"]
                ELSE IF storage.videoAction = Null
                     THEN [popup EXCEPT !.pc = "setVideoAction", !.videoAction = "delete"]
                     ELSE [popup EXCEPT !.pc = "getSensitivity",
                                        !.videoAction = storage.videoAction]
    /\ UNCHANGED <<storage, contentVars, mapCall, mapOut, gw, availability, sw,
                   sessions, trace, shorts>>

\* chrome.storage.local.set({ videoAction: 'delete' }) settles: the store
\* holds the default when the write succeeded (ok) and is as it was when the
\* write was rejected, which the catch block logs; either way the radio
\* buttons are set and the sensitivity is read.
VideoActionSaved(ok) ==
    /\ popup.pc = "setVideoAction"
    /\ storage' = IF ok THEN [storage EXCEPT !.videoAction = "delete"] ELSE storage
    /\ popup' = [popup EXCEPT !.pc = "getSensitivity"]
    /\ UNCHANGED <<contentVars, mapCall, mapOut, gw, availability, sw,
                   sessions, trace, shorts>>

\* The read of the stored sensitivity settles: the slider is set to the
\* stored value, or to the default when none is stored or the read was
\* rejected; the handlers are installed and the list is rendered
\* (showCompactMode, renderTopics).
SensitivityLoaded ==
    /\ popup.pc = "getSensitivity"
    /\ popup' = [popup EXCEPT !.pc = "ready",
                              !.rendered = [topics |-> popup.topics,
                                            editingIndex |-> popup.editingIndex]]
    /\ UNCHANGED <<storage, contentVars, mapCall, mapOut, gw, availability, sw,
                   sessions, trace, shorts>>

\* showEditMode(), the click handler of the edit-mode button: the edit
\* section is shown and the in-memory list rendered.
showEditMode ==
    /\ popup.pc = "ready"
    /\ popup' = [popup EXCEPT !.rendered = [topics |-> popup.topics,
                                            editingIndex |-> popup.editingIndex]]
    /\ UNCHANGED <<storage, contentVars, mapCall, mapOut, gw, availability, sw,
                   sessions, trace, shorts>>

\* The indices of the rendered list.
RenderedIndices == 0..(Len(popup.rendered.topics) - 1)

NextPopup ==
    \/ TopicsLoaded
    \/ \E ok \in BOOLEAN : VideoActionLoaded(ok)
    \/ \E ok \in BOOLEAN : VideoActionSaved(ok)
    \/ SensitivityLoaded
    \/ showEditMode
    \/ \E raw \in RawTopics : handleAdd(raw)
    \/ \E index \in RenderedIndices : onStartEdit(index)
    \/ \E index \in RenderedIndices, raw \in RawTopics : onConfirmEdit(index, raw)
    \/ \E index \in RenderedIndices : onRemove(index)
    \/ \E k \in 1..MaxWrites : WriteDone(k)

SpecPopup == Init /\ [][NextPopup]_vars

(***************************************************************************)
(* Sensitivity of the similarity-based variant (hideUnwantedContent.js of  *)
(* src/src/contentScript, content.js).                                     *)
(***************************************************************************)
\* Numbers as fractions num/den.
Fraction(num, den) == [num |-> num, den |-> den]

GreaterOrEqual(a, b) == a.num * b.den >= b.num * a.den

\* The positions of the popup's slider, in percent.
SliderValues == 0..100

\* What cosineSimilarity() gives for a topic and a title: a number in
\* [-1, 1], or an exception for vectors of different lengths.
ScorePool ==
    {[threw |-> TRUE, value |-> Fraction(0, 20)]} \cup
    {[threw |-> FALSE, value |-> Fraction(n, 20)] : n \in {0, 5, 10}}

DEFAULT_SENSITIVITY == Fraction(3, 10)

\* getSensitivity(): parseInt(sensitivitySlider.value) / 100.
getSensitivity(slider) == Fraction(slider, 100)

\* loadSettings(): sensitivity = result.sensitivity || DEFAULT_SENSITIVITY,
\* result.sensitivity being what handleSensitivityChange() stored.
loadSensitivity(stored) == IF stored.num = 0 THEN DEFAULT_SENSITIVITY ELSE stored

\* The topic loop of scanForVideos() and of shouldHideVideo(): the video is
\* hidden when some topic's similarity >= sensitivity; a topic whose
\* comparison throws is skipped.
shouldHideVideo(similarities, sensitivity) ==
    \E t \in 1..Len(similarities) :
        /\ ~similarities[t].threw
        /\ GreaterOrEqual(similarities[t].value, sensitivity)

\* One video's similarity to each excluded topic, and two slider positions.
InitSensitivity ==
    /\ InitPipeline
    /\ \E n \in 1..MaxTopics : \E s \in [1..n -> ScorePool] :
          \E low \in SliderValues, high \in SliderValues :
              /\ low < high
              /\ mapCall = [similarities |-> s, low |-> low, high |-> high]
    /\ mapOut = NoOut
    /\ GatewayIdle

\* The video is decided once with the slider at mapCall.low and once at
\* mapCall.high: the popup stores getSensitivity(), the content script loads
\* it and scans.
SensitivityCall ==
    /\ ~mapOut.done
    /\ mapOut' =
         [done |-> TRUE,
          hiddenLow |-> shouldHideVideo(mapCall.similarities,
                            loadSensitivity(getSensitivity(mapCall.low))),
          hiddenHigh |-> shouldHideVideo(mapCall.similarities,
                            loadSensitivity(getSensitivity(mapCall.high)))]
    /\ UNCHANGED <<mapCall, pipelineVars, gatewayVars>>

NextSensitivity == SensitivityCall

SpecSensitivity == InitSensitivity /\ [][NextSensitivity]_vars

(***************************************************************************)
(* Properties.                                                             *)
(***************************************************************************)
InDocument(t) == dom[t].status = "attached"

\* Suppressed: marker class, reduced opacity, no pointer events, indicator.
Suppressed(el) ==
    el.cls /\ el.opacity = "0.4" /\ el.pointerEvents = "none" /\ el.indicators >= 1

Unsuppressed(el) ==
    ~el.cls /\ el.opacity = "" /\ el.pointerEvents = "" /\ el.indicators = 0

LaidOut(el) == el.display # "none"

FailureKinds == {"neterror", "httperror"}

\* A scan cycle that called the classifier has just run to its end.
CycleDone == ev.op = "done"

\* A scan cycle has just run from start to end without a classifier call.
CycleIdle == ev.op = "idle"

\* C1 (as claimed): after a scan cycle that ran with an empty topic set no
\* tile of the document is suppressed or removed from layout, and the cycle
\* called no classifier.
C1_EmptyTopicsShowAll ==
    /\ CycleDone => ev.topics # <<>>
    /\ (CycleIdle /\ ev.topics = <<>>) =>
          \A t \in Tiles : InDocument(t) => ~dom[t].cls /\ LaidOut(dom[t])

\* C2: when the classifier call of a cycle fails, every decision of the batch
\* is "show", every tile of the batch is marked decided and is neither
\* suppressed nor removed from layout when the cycle ends; the cycle ends
\* with the scanning flag released; and a tile that is marked decided is in
\* no batch that is in flight.
C2_FailOpen ==
    /\ (CycleDone /\ ev.resp.kind \in FailureKinds) =>
          \A i \in Indices(ev.batch) :
             /\ ~ev.decisions[i]
             /\ ev.batch[i] \in processedVideos
             /\ Unsuppressed(dom[ev.batch[i]])
             /\ LaidOut(dom[ev.batch[i]])
    /\ CycleDone => ~isScanning
    /\ \A k \in Indices(cycles) : SeqRange(cycles[k].batch) \cap processedVideos = {}

\* C2 witness: a batch of several tiles has just failed.
C2_Witness == CycleDone /\ ev.resp.kind \in FailureKinds /\ Len(ev.batch) > 1

\* C3: since the last invalidation (settings change or URL change) every tile
\* node was part of at most one classifier batch.
C3_Dedup == \A t \in Tiles : batchCount[t] <= 1

\* C3 witness: a further cycle has just run with a non-empty topic set while
\* the tile was decided, and called no classifier.
C3_Witness ==
    /\ CycleIdle
    /\ ev.topics # <<>>
    /\ \E t \in Tiles : InDocument(t) /\ t \in processedVideos /\ batchCount[t] = 1

\* C4 (as claimed): no tile is marked decided by a cycle whose batch was
\* dispatched with a topic set other than the current one.
C4_DecidedWithCurrentTopics ==
    CycleDone =>
       \A i \in Indices(ev.batch) :
          ev.batch[i] \in processedVideos => ev.topics = excludedTopics

\* C5: at most one scan cycle is in flight, and a call of scanForVideos that
\* is skipped because a cycle is in flight starts no cycle and no timer.
C5_SingleFlight ==
    /\ [](Len(cycles) <= 1)
    /\ [][ev'.op = "skipped" =>
             /\ cycles' = cycles
             /\ debounceTimers' <= debounceTimers
             /\ observerTimeout' <= observerTimeout
             /\ urlTimers' <= urlTimers]_vars

\* C5 witness: a trigger has just been skipped while a cycle is in flight.
C5_Witness == ev.op = "skipped" /\ Len(cycles) = 1 /\ isScanning

\* C6 (as claimed): the decided set is reset only while no scan cycle is
\* suspended at its classification await.
C6_NoResetDuringScan == ev.cleared => cycles = <<>>

\* The topics of a request, as {id, topic} pairs, for a topic list.
TopicsWithIds(topics) ==
    [j \in Indices(topics) |-> [id |-> <<"p">> \o ToDecimal(j - 1), topic |-> topics[j]]]

\* C7: a request carries the topic list that is current at its dispatch, no
\* later step changes a request in flight, and the decisions of a cycle are
\* those its own request's topic ids give: a text is matched exactly when the
\* id answered for it is an id of that request.
C7_TopicSnapshot ==
    [][/\ Len(cycles') > Len(cycles) =>
             cycles'[Len(cycles')].request.topics = TopicsWithIds(excludedTopics)
       /\ Len(cycles') >= Len(cycles) =>
             \A k \in Indices(cycles) : cycles'[k].request = cycles[k].request
       /\ ev'.op = "done" =>
             /\ \E k \in Indices(cycles) : cycles[k].request = ev'.request
             /\ ev'.resp.kind = "ok" =>
                   \A i \in Indices(ev'.batch) :
                      ev'.decisions[i] <=>
                         \E j \in Indices(ev'.request.topics) :
                            ev'.resp.results[i].topic_ids
                               = <<ev'.request.topics[j].id>>]_vars

\* C7 witness: a cycle has just ended whose topic list was replaced while its
\* request was in flight, and it matched a text.
C7_Witness ==
    /\ CycleDone
    /\ ev.topics # excludedTopics
    /\ \E i \in Indices(ev.batch) : ev.decisions[i]

\* C8: when a cycle that called the classifier ends, every attached tile of
\* its batch is in the state its decision and the display action select.
C8_DomMatchesDecision ==
    CycleDone =>
       \A i \in Indices(ev.batch) :
          LET el == dom[ev.batch[i]]
          IN  el.status = "attached" =>
                 /\ (ev.decisions[i] /\ videoAction = "delete") => ~LaidOut(el)
                 /\ (ev.decisions[i] /\ videoAction = "hide") =>
                       Suppressed(el) /\ LaidOut(el)
                 /\ ~ev.decisions[i] => Unsuppressed(el) /\ LaidOut(el)

\* C8 witness: a cycle has just ended with a matched and an unmatched tile.
C8_Witness ==
    /\ CycleDone
    /\ \E i, j \in Indices(ev.batch) : ev.decisions[i] /\ ~ev.decisions[j]
    /\ videoAction = "hide"

\* The index the code reads from an entry's text_id, and from its first topic id.
TextIndexOf(entry) == parseInt(replace(entry.text_id, "t"))

TopicIndexOf(entry) == parseInt(replace(entry.topic_ids[1], "p"))

\* A direct call with non-empty arguments has returned.
Called == mapOut.done /\ Len(mapCall.texts) > 0 /\ Len(mapCall.topics) > 0

\* Every entry of the response has ids of the forms t{n} and p{n}.
WellFormedResponse ==
    \A r \in Indices(mapCall.resp.results) :
       mapCall.resp.results[r] \in WellFormedEntries

\* C9 (as claimed): for a response whose ids are all well formed, the
\* decision at position i is "hide" exactly when the response has an entry
\* for text t{i} with a non-empty topic_ids list.
C9_HiddenIffTopicIds ==
    (Called /\ WellFormedResponse) =>
       \A i \in Indices(mapCall.texts) :
          mapOut.decisions[i] <=>
             \E r \in Indices(mapCall.resp.results) :
                /\ mapCall.resp.results[r].text_id = TextId(i - 1)
                /\ Len(mapCall.resp.results[r].topic_ids) > 0

\* C9 (amended): the decision at position i is "hide" exactly when some entry
\* whose text_id reads as index i has a non-empty topic_ids list whose first
\* id reads as the index of a topic of the call.
C9_HiddenIffValidMatch ==
    Called =>
       \A i \in Indices(mapCall.texts) :
          mapOut.decisions[i] <=>
             \E r \in Indices(mapCall.resp.results) :
                LET entry == mapCall.resp.results[r]
                IN  /\ ~TextIndexOf(entry).nan
                    /\ TextIndexOf(entry).val = i - 1
                    /\ Len(entry.topic_ids) > 0
                    /\ InRange(TopicIndexOf(entry), Len(mapCall.topics))

\* C9 witness: the entry for a text names a topic id one past the last topic,
\* and the text is shown.
C9_Witness ==
    /\ Called
    /\ \E i \in Indices(mapCall.texts), r \in Indices(mapCall.resp.results) :
          /\ mapCall.resp.results[r] =
                [text_id |-> TextId(i - 1),
                 topic_ids |-> <<TopicId(Len(mapCall.topics))>>]
          /\ ~mapOut.decisions[i]

\* C10: a call answered with a results array does not throw and returns one
\* value per text; an entry t{i} -> [p{j}] with both indices in range, not
\* followed by another entry for the same text, gives topics[j] at position
\* i; and a position holds a topic only if some entry with both indices in
\* range names it, so entries with an index out of range match nothing.
C10_IdRoundTrip ==
    (Called /\ mapCall.resp.kind \in {"ok", "noresults"}) =>
       LET texts == mapCall.texts
           topics == mapCall.topics
           results == mapCall.resp.results
       IN  /\ ~mapOut.threw
           /\ Len(mapOut.matched) = Len(texts)
           /\ \A r \in Indices(results), i \in Indices(texts), j \in Indices(topics) :
                 (/\ results[r] = [text_id |-> TextId(i - 1),
                                   topic_ids |-> <<TopicId(j - 1)>>]
                  /\ \A q \in Indices(results) :
                        q > r => (TextIndexOf(results[q]).nan
                                  \/ TextIndexOf(results[q]).val # i - 1))
                 => mapOut.matched[i] = topics[j]
           /\ \A i \in Indices(texts) :
                 mapOut.matched[i] # Null =>
                    \E r \in Indices(results) :
                       /\ InRange(TextIndexOf(results[r]), Len(texts))
                       /\ TextIndexOf(results[r]).val = i - 1
                       /\ Len(results[r].topic_ids) > 0
                       /\ InRange(TopicIndexOf(results[r]), Len(topics))
                       /\ mapOut.matched[i] = topics[TopicIndexOf(results[r]).val + 1]

\* C10 witness: an entry with a text index out of range comes first, and the
\* valid entry after it is still mapped.
C10_Witness ==
    /\ Called
    /\ Len(mapCall.resp.results) > 1
    /\ mapCall.resp.results[1].text_id = TextId(Len(mapCall.texts))
    /\ mapCall.resp.results[2] =
          [text_id |-> TextId(0), topic_ids |-> <<TopicId(Len(mapCall.topics) - 1)>>]
    /\ mapOut.matched[1] = mapCall.topics[Len(mapCall.topics)]

\* An argument that is not an array, or an array without elements.
BadArgument(v) == v.kind # "array" \/ v.items = <<>>

\* C11: a call of a classifier entry point whose texts or topics argument is
\* empty or not an array fails with an error, and no HTTP request was
\* issued, no runtime message sent, no availability check made, no session
\* created and no prompt issued.
C11_InvalidArgument ==
    /\ (gw.done /\ (BadArgument(gw.texts) \/ BadArgument(gw.topics))) =>
          /\ gw.out.threw
          /\ gw.out.message # <<>>
          /\ gw.out.fetches = 0
          /\ gw.out.sent = 0
    /\ (sw.pc # "idle" /\ (BadArgument(sw.texts) \/ BadArgument(sw.topics))) =>
          /\ sw.pc = "done"
          /\ sw.out.threw
          /\ sw.out.message # <<>>
          /\ sw.checked = "none"
          /\ sessions = <<>>

\* C11 witness: the server classifier was called with texts and an empty
\* topics array while the backend would have answered with results.
C11_Witness ==
    /\ gw.done
    /\ gw.entry = "ServerTextClassifier.classify"
    /\ isArray(gw.texts) /\ Len(gw.texts.items) > 0
    /\ gw.topics = JsArray(<<>>)
    /\ gw.resp.kind = "ok"
    /\ gw.out.threw

\* C12: a tile of the document without an extractable context is in no
\* batch, is not in the decided set and has no action applied; and every
\* cycle that dispatches a batch examines every undecided tile of the
\* document again: the batch holds exactly those with a context.
C12_ExtractionMiss ==
    /\ [](\A t \in Tiles :
             (InDocument(t) /\ extractVideoContext(dom[t]) = Null) =>
                /\ t \notin processedVideos
                /\ ~Referenced(t)
                /\ batchCount[t] = 0
                /\ Unsuppressed(dom[t])
                /\ LaidOut(dom[t]))
    /\ [][Len(cycles') > Len(cycles) =>
             \A t \in Tiles :
                (InDocument(t) /\ t \notin processedVideos) =>
                   (t \in SeqRange(cycles'[Len(cycles')].batch)
                       <=> extractVideoContext(dom[t]) # Null)]_vars

\* C12 witness: a cycle has just decided a tile while another tile of the
\* document, without a context, was left out and stays undecided.
C12_Witness ==
    /\ CycleDone
    /\ Len(ev.batch) > 0
    /\ \E t \in Tiles :
          /\ InDocument(t)
          /\ extractVideoContext(dom[t]) = Null
          /\ t \notin SeqRange(ev.batch)
          /\ t \notin processedVideos

\* The state of the directly called tile before its i-th call, and after it.
StateBefore(i) == IF i = 1 THEN trace.before ELSE trace.states[i - 1]

StateAfter(i) == trace.states[i]

\* The i-th and the next direct call are op1 and op2.
CalledInTurn(i, op1, op2) ==
    /\ i + 1 <= Len(trace.ops)
    /\ trace.ops[i] = op1
    /\ trace.ops[i + 1] = op2

\* C13 (as claimed): hideVideo followed by showVideo leaves the tile in
\* exactly the state it had before hideVideo: same marker class, same number
\* of indicator nodes, same inline opacity, pointer-events, position and
\* display.
C13_HideShowRoundTrip ==
    \A i \in Indices(trace.ops) :
        CalledInTurn(i, "hideVideo", "showVideo") => StateAfter(i + 1) = StateBefore(i)

\* C14: hideVideo applied twice gives the state of hideVideo applied once,
\* with no second indicator; showVideo applied twice gives the state of
\* showVideo applied once; showVideo on a tile that has no marker class and
\* is laid out changes nothing.
C14_Idempotence ==
    \A i \in Indices(trace.ops) :
        /\ CalledInTurn(i, "hideVideo", "hideVideo") =>
              /\ StateAfter(i + 1) = StateAfter(i)
              /\ StateAfter(i + 1).indicators <= StateBefore(i).indicators + 1
        /\ CalledInTurn(i, "showVideo", "showVideo") =>
              StateAfter(i + 1) = StateAfter(i)
        /\ (trace.ops[i] = "showVideo" /\ ~StateBefore(i).cls /\ LaidOut(StateBefore(i))) =>
              StateAfter(i) = StateBefore(i)

\* hideVideo ran twice in turn on a tile that had no indicator, and showVideo
\* ran on a tile with no marker class that was laid out.
C14_Witness ==
    /\ Len(trace.ops) = 3
    /\ CalledInTurn(1, "hideVideo", "hideVideo")
    /\ trace.before.indicators = 0
    /\ StateAfter(2).indicators = 1

\* C15: deleteVideo leaves the tile attached to its parent and changes
\* nothing but display, which becomes none for an attached tile; showVideo or
\* hideVideo called next on the tile makes it laid out again.
C15_DeleteKeepsAttached ==
    \A i \in Indices(trace.ops) :
        /\ trace.ops[i] = "deleteVideo" =>
              /\ StateAfter(i).status = StateBefore(i).status
              /\ StateAfter(i) = [StateBefore(i) EXCEPT !.display = StateAfter(i).display]
              /\ StateBefore(i).status = "attached" => ~LaidOut(StateAfter(i))
        /\ (CalledInTurn(i, "deleteVideo", "showVideo") \/ CalledInTurn(i, "deleteVideo", "hideVideo")) =>
              /\ LaidOut(StateAfter(i + 1))
              /\ StateAfter(i + 1).status = StateBefore(i).status

\* deleteVideo ran on an attached, laid out tile and showVideo ran next.
C15_Witness ==
    /\ CalledInTurn(1, "deleteVideo", "showVideo")
    /\ trace.before.status = "attached"
    /\ LaidOut(trace.before)
    /\ ~LaidOut(StateAfter(1))
    /\ LaidOut(StateAfter(2))

\* A tile of the batch of the cycle that has just ended is detached: the
\* host page removed it while the classifier call was in flight.
DetachedInBatch == \E i \in Indices(ev.batch) : dom[ev.batch[i]].status = "detached"

\* C16: when a cycle ends whose batch holds a tile that the host page
\* detached after dispatch, the cycle has run to its end with the flag
\* released, every tile of the batch is marked decided, and every attached
\* tile of the batch is in the state its decision and the display action
\* select.
C16_DetachedTileSafe ==
    (CycleDone /\ DetachedInBatch) =>
       /\ ~isScanning
       /\ \A i \in Indices(ev.batch) :
             LET el == dom[ev.batch[i]]
             IN  /\ ev.batch[i] \in processedVideos
                 /\ el.status = "attached" =>
                       /\ (ev.decisions[i] /\ videoAction = "delete") => ~LaidOut(el)
                       /\ (ev.decisions[i] /\ videoAction = "hide") => Suppressed(el)
                       /\ ~ev.decisions[i] => Unsuppressed(el) /\ LaidOut(el)

\* C16 witness: a cycle has ended whose first tile was detached in flight and
\* decided "hide" under the delete action, and whose second tile, attached,
\* was removed from layout.
C16_Witness ==
    /\ CycleDone
    /\ Len(ev.batch) = 2
    /\ dom[ev.batch[1]].status = "detached"
    /\ dom[ev.batch[2]].status = "attached"
    /\ ev.decisions[1]
    /\ ev.decisions[2]
    /\ videoAction = "delete"
    /\ ~LaidOut(dom[ev.batch[2]])
    /\ ev.batch[2] \in processedVideos

\* An entry point of the remote variant was called with non-empty arrays and
\* issued its HTTP request.
RemoteCalled ==
    /\ gw.done
    /\ gw.classifier = "server"
    /\ ~BadArgument(gw.texts)
    /\ ~BadArgument(gw.topics)

\* The pieces of part occur in message, in turn.
Carries(message, part) ==
    \E i \in 1..(Len(message) - Len(part) + 1) :
        SubSeq(message, i, i + Len(part) - 1) = part

\* C17 (as claimed): a call of the remote variant that gets a non-2xx
\* response fails with an error whose message carries the HTTP status and
\* every message of the detail the server reported; it returns no result
\* set, and every decision of the batch is "show".
C17_HttpErrorMessage ==
    (RemoteCalled /\ gw.resp.kind = "httperror") =>
       /\ gw.out.threw
       /\ gw.out.value = <<>>
       /\ \A i \in Indices(gw.decisions) : ~gw.decisions[i]
       /\ Carries(gw.out.message, ToDecimal(gw.resp.status))
       /\ \A k \in Indices(gw.resp.detail) :
             gw.resp.detail[k].hasMsg => Carries(gw.out.message, <<gw.resp.detail[k].msg>>)
       /\ gw.resp.detailText # "" => Carries(gw.out.message, <<gw.resp.detailText>>)

\* C18 (as claimed): a call of the remote variant that gets a 2xx response
\* whose body has no results array does not fail; the classifier returns one
\* entry per input text, in input order, each with empty topic_ids, the
\* batch helpers return no topic for any text, and every decision of the
\* batch is "show".
C18_MissingResults ==
    (RemoteCalled /\ gw.resp.kind \in {"noresults", "badbody"}) =>
       /\ ~gw.out.threw
       /\ gw.entry = "ServerTextClassifier.classify" =>
             gw.out.value = [i \in Indices(gw.texts.items) |->
                                [text_id |-> TextId(i - 1), topic_ids |-> <<>>]]
       /\ gw.entry # "ServerTextClassifier.classify" =>
             gw.out.value = [i \in Indices(gw.texts.items) |-> Null]
       /\ \A i \in Indices(gw.decisions) : ~gw.decisions[i]

\* The texts and topics of the service worker's call as the content script
\* holds them: arrays of strings.
SwTextStrings == JsArray([i \in Indices(sw.texts.items) |-> sw.texts.items[i].text])

SwTopicStrings == JsArray([i \in Indices(sw.topics.items) |-> sw.topics.items[i].topic])

\* The decisions of the content-script pipeline when the service worker
\* answers its CLASSIFY message with the outcome of the call that has ended.
SwPipelineDecisions ==
    contentScript_batchClassifyVideoContexts("builtin", SwTextStrings, SwTopicStrings,
        [resp |-> PlainResponse("neterror"), reply |-> handlerReply(sw.out)])

\* C19: a session exists, and a prompt was issued, only when the model is in
\* state 'available'; in every other state, and when the model API is absent,
\* getAIStatus reports false, a call that has ended has thrown, the CLASSIFY
\* handler answers success: false with an error text, and the content-script
\* pipeline decides "show" for every text of the batch.
C19_AvailabilityGate ==
    availability # "available" =>
       /\ sessions = <<>>
       /\ ~getAIStatus(availability)
       /\ sw.pc \notin {"create", "loop", "recreate", "parallel", "batch"}
       /\ sw.pc = "done" =>
             /\ sw.out.threw
             /\ ~handlerReply(sw.out).success
             /\ handlerReply(sw.out).error # <<>>
             /\ (~BadArgument(sw.texts) /\ ~BadArgument(sw.topics)) =>
                   /\ Len(SwPipelineDecisions) = Len(sw.texts.items)
                   /\ \A i \in Indices(SwPipelineDecisions) : ~SwPipelineDecisions[i]

\* C19 witness: the CLASSIFY handler's call with two texts and a topic has
\* ended while the model was downloading, after the availability check.
C19_Witness ==
    /\ availability = "downloading"
    /\ sw.pc = "done"
    /\ sw.handler
    /\ sw.checked = "downloading"
    /\ isArray(sw.texts) /\ Len(sw.texts.items) = 2
    /\ isArray(sw.topics) /\ Len(sw.topics.items) >= 1
    /\ sw.out.threw

\* The call reached from the CLASSIFY handler has issued its prompts.
HandlerCall == sw.handler /\ sw.pc \in {"loop", "recreate", "done"}

\* C20 (as claimed): on the path from the CLASSIFY handler every session
\* serves at most one per-text invocation, and when the call has ended every
\* session is destroyed.
C20_SessionPerInvocation ==
    HandlerCall =>
       /\ \A s \in Indices(sessions) : Len(sessions[s].prompts) <= 1
       /\ sw.pc = "done" =>
             \A s \in Indices(sessions) :
                sessions[s].state = "live" => sessions[s].destroyed

\* The invocations of classifySingleText that have started and not settled,
\* and the sessions requested or alive.
TasksInFlight == {k \in Indices(sw.tasks) : sw.tasks[k].pc \in {"create", "prompt"}}

SessionsInFlight ==
    {s \in Indices(sessions) :
        \/ sessions[s].state = "pending"
        \/ sessions[s].state = "live" /\ ~sessions[s].destroyed}

\* C21: during a classifyParallel call at most MAX_PARALLEL invocations
\* and sessions are in flight; when the call has resolved every invocation
\* has settled, one create() call was made per text, and the result holds one
\* entry per input text, in input order.
C21_BoundedParallelism ==
    sw.fn = "classifyParallel" =>
       /\ Cardinality(TasksInFlight) <= MAX_PARALLEL
       /\ Cardinality(SessionsInFlight) <= MAX_PARALLEL
       /\ (sw.pc = "done" /\ ~sw.out.threw) =>
             /\ TasksInFlight = {}
             /\ SessionsInFlight = {}
             /\ Len(sessions) = Len(sw.texts.items)
             /\ Len(sw.out.value) = Len(sw.texts.items)
             /\ \A i \in Indices(sw.texts.items) :
                   sw.out.value[i].text_id = sw.texts.items[i].id

\* C21 witness: a call with more than MAX_PARALLEL texts has resolved, and
\* the invocation of its last text found a match.
C21_Witness ==
    /\ sw.fn = "classifyParallel"
    /\ sw.pc = "done"
    /\ ~sw.out.threw
    /\ Len(sw.texts.items) > MAX_PARALLEL
    /\ sw.out.value[Len(sw.texts.items)].topic_ids # <<>>

\* A call of classify or classifyParallel has ended after the invocations
\* of its texts.
InvocationsEnded ==
    /\ sw.pc = "done"
    /\ sw.fn \in {"classify", "classifyParallel"}
    /\ sw.log # <<>>
    /\ \E i \in Indices(sw.log) : sw.log[i].kind # "none"

\* The invocation of the i-th text failed: its session could not be created,
\* its prompt was rejected or its answer was not JSON.
InvocationFailed(i) == sw.log[i].kind \in {"createfail", "reject", "notjson"}

\* C22: a call of classify or classifyParallel whose per-text invocations
\* ran resolves with one entry per input text, in input order; the entry of a
\* text whose invocation failed has empty topic_ids, the entry of every other
\* text has the topic_ids its own invocation answered.
C22_FailureIsolation ==
    InvocationsEnded =>
       /\ ~sw.out.threw
       /\ Len(sw.out.value) = Len(sw.texts.items)
       /\ \A i \in Indices(sw.texts.items) :
             /\ sw.out.value[i].text_id = sw.texts.items[i].id
             /\ InvocationFailed(i) => sw.out.value[i].topic_ids = <<>>
             /\ ~InvocationFailed(i) => sw.out.value[i].topic_ids = sw.log[i].topic_ids

\* C22 witness: a call has resolved in which the invocation of the first
\* text failed and the invocation of the second answered a topic.
C22_Witness ==
    /\ InvocationsEnded
    /\ Len(sw.texts.items) >= 2
    /\ InvocationFailed(1)
    /\ sw.log[2].kind = "json"
    /\ sw.log[2].topic_ids # <<>>
    /\ sw.out.value[2].topic_ids # <<>>

\* The URL observer has seen a new URL in this step.
UrlChangeObserved == currentUrl # NoUrl /\ currentUrl' # currentUrl

\* The 500 ms timer of the URL observer has expired in this step.
UrlTimerExpired == urlTimers' < urlTimers

\* C23 (as claimed): a step in which the URL observer sees a new URL empties
\* the decided set and starts the render-delay timer; and when that timer
\* expires a scan cycle starts, also while another cycle is in flight: the
\* call of scanForVideos is not dropped.
C23_UrlChangeScan ==
    [][/\ UrlChangeObserved => (processedVideos' = {} /\ urlTimers' = urlTimers + 1)
       /\ UrlTimerExpired => ev'.op # "skipped"]_vars

\* A step that calls debouncedScan: the interval, the shared observer's
\* timer, or the settings listener.
ScanTrigger ==
    \/ IntervalTick
    \/ ObserverTimeoutFire
    \/ \E ok \in BOOLEAN : SettingsLoaded(ok)

\* A scan cycle begins in this step: scanForVideos passes its guard.
CycleBegins == Len(cycles') > Len(cycles) \/ ev'.op = "idle"

\* C24: at most one debounce timer is pending; every trigger leaves exactly
\* one timer pending, so a trigger that arrives before the timer of the
\* previous one has expired replaces it; a scan cycle begins only when the
\* pending timer expires, which leaves no timer pending: the triggers since
\* the previous expiry start at most one cycle, after the last of them.
C24_Debounce ==
    /\ [](debounceTimers <= 1)
    /\ [][/\ ScanTrigger => debounceTimers' = 1
          /\ CycleBegins => (debounceTimers = 1 /\ debounceTimers' = 0)]_vars

\* C24 witness: the debounce timer has expired and started a cycle that is
\* in flight, and a later trigger has left one timer pending.
C24_Witness ==
    /\ Len(cycles) = 1
    /\ isScanning
    /\ debounceTimers = 1
    /\ observerTimeout = 1

\* C25 (as claimed): the classifier that getTextClassifier returns at the
\* time of a call is the built-in AI classifier when the availability check
\* succeeds, and the server-based classifier otherwise.
C25_ClassifierSelection ==
    gw.done =>
       gw.selected = IF availability = "available" THEN "builtin" ELSE "server"


\* A topic is a non-blank string that has no surrounding white space and no
\* upper-case letter.
WellFormedTopic(topic) ==
    /\ topic \notin {Hole, Undefined}
    /\ topic # <<>>
    /\ topic[1] \notin WhiteSpaceChars
    /\ topic[Len(topic)] \notin WhiteSpaceChars
    /\ \A i \in 1..Len(topic) : topic[i] \notin UpperCase

WellFormedTopics(topics) ==
    /\ \A i \in 1..Len(topics) : WellFormedTopic(topics[i])
    /\ \A i, j \in 1..Len(topics) : i # j => topics[i] # topics[j]

\* The call of the last topic handler had its index in range.
InRangeCall(call) ==
    call.op \in {"edit", "remove"} => call.index < Len(call.before)

\* A step of handleAdd, onConfirmEdit or onRemove whose call returned.
ReturnedStep ==
    /\ popup'.writes # popup.writes
    /\ Len(popup'.writes) > Len(popup.writes)

\* C26: the list is empty at the start, and every call of addTopic,
\* editTopic or removeTopic with an in-range index on a list whose topics are
\* non-blank, trimmed, lower-cased and pairwise different returns such a
\* list, which is the list written to the store; a call that fails leaves
\* the list as it was.
C26_TopicSetInvariant ==
    /\ [](popup.pc # "ready" => popup.topics = <<>>)
    /\ [][(ReturnedStep /\ WellFormedTopics(popup.topics) /\ InRangeCall(popup'.last)) =>
            /\ WellFormedTopics(popup'.topics)
            /\ popup'.writes[Len(popup'.writes)].topics = popup'.topics]_vars
    /\ [][(popup'.last.threw /\ popup'.last # popup.last) =>
            popup'.topics = popup.topics]_vars

\* A list of two topics, one of them spelled with letters outside ASCII,
\* after an edit that failed.
C26_Witness ==
    /\ Len(popup.topics) = 2
    /\ <<"U+00E9", "U+1C8A">> \in SeqRange(popup.topics)
    /\ popup.last.threw
    /\ popup.last.op = "edit"

\* The call of the last topic handler had to be rejected: its topic is blank,
\* or equals, ignoring case and surrounding whitespace, an entry of the list
\* (for an edit: an entry other than the edited one).
MustReject(call) ==
    LET others == IF call.op = "edit"
                  THEN {i \in 1..Len(call.before) : (i - 1) # call.index}
                  ELSE 1..Len(call.before)
    IN  \/ normalize(call.raw) = <<>>
        \/ \E i \in others : normalize(call.before[i]) = normalize(call.raw)

\* A step of handleAdd or onConfirmEdit whose call threw.
RejectedStep ==
    /\ popup'.last.threw
    /\ popup'.last # popup.last \/ (popup.error = "" /\ popup'.error # "")

\* C27: addTopic and editTopic throw exactly when the topic is blank or a
\* duplicate ignoring case and surrounding whitespace (an edit to another
\* spelling of the edited entry is not one), the argument list is left as it
\* was, and the popup handler that made the call leaves the in-memory list,
\* the stored list and the writes in flight as they were and shows the
\* message.
C27_RejectedEditsChangeNothing ==
    /\ [](popup.last.op \in {"add", "edit"} =>
            /\ popup.last.threw <=> MustReject(popup.last)
            /\ popup.last.threw => popup.last.arg = popup.last.before)
    /\ [][RejectedStep =>
            /\ popup'.topics = popup.topics
            /\ popup'.writes = popup.writes
            /\ storage' = storage
            /\ popup'.error \in {"Topic cannot be blank.", "Topic already exists."}]_vars

\* An edit was rejected as a duplicate while a write was in flight.
C27_Witness ==
    /\ popup.last.threw
    /\ popup.last.op = "edit"
    /\ popup.error = "Topic already exists."
    /\ popup.writes # <<>>

\* C28: when no storage write of the popup is in flight and an add, edit or
\* remove has succeeded, the stored topic list equals the in-memory list, and
\* the rendered list is the in-memory list.
C28_Persistence ==
    (popup.writes = <<>> /\ storage.hasTopics) =>
        /\ storage.topics = popup.topics
        /\ popup.rendered.topics = popup.topics

\* Two operations were started before the first one's write completed, both
\* writes have completed, and the lists they wrote differ.
C28_Witness ==
    /\ popup.writes = <<>>
    /\ storage.hasTopics
    /\ popup.last.op = "remove"
    /\ ~popup.last.threw
    /\ popup.last.stored # popup.last.before
    /\ popup.topics # popup.last.before

\* removeShortsSectionsFromDOM() ran in this step with the setting off.
DisabledCall ==
    /\ shorts'.callParity # shorts.callParity
    /\ ~shorts'.removeShortsSection

\* C29: a Shorts section that is in the document while removeShortsSection
\* is on is eventually out of the document, unless the setting is turned
\* off first; a call of removeShortsSectionsFromDOM made while the setting
\* is off leaves every section as it was.
C29_ShortsRemoval ==
    /\ \A x \in Sections :
          (shorts.removeShortsSection /\ shorts.sections[x] = "attached")
              ~> (shorts.sections[x] # "attached" \/ ~shorts.removeShortsSection)
    /\ [][DisabledCall => shorts'.sections = shorts.sections]_vars

\* A section inserted after the initialisation was removed, and another one
\* is in the document while the setting is off.
C29_Witness ==
    /\ shorts.pc = "ready"
    /\ shorts.retryTimer = 0
    /\ shorts.sections[1] = "removed"
    /\ shorts.sections[2] = "attached"
    /\ ~shorts.removeShortsSection

\* C30: for fixed similarity scores, a video that is hidden at one slider
\* position is hidden at every higher one.
C30_SensitivityDirection ==
    mapOut.done => (mapOut.hiddenLow => mapOut.hiddenHigh)

\* C31: extractVideoContext returns "{title} - {channel}" when the tile has
\* both, the one the tile has when it has only one, and null when it has
\* neither, and the tile is after the call as it was before.
C31_ContextFormat ==
    \A k \in Indices(trace.contexts) :
        LET el == StateBefore(trace.contexts[k].at)
            value == trace.contexts[k].value
        IN  /\ (el.title # Null /\ el.channel # Null) =>
                    value = "India wins World Cup - ESPN"
            /\ (el.title # Null /\ el.channel = Null) => value = "India wins World Cup"
            /\ (el.title = Null /\ el.channel # Null) => value = "ESPN"
            /\ (el.title = Null /\ el.channel = Null) => value = Null
            /\ StateAfter(trace.contexts[k].at) = el

\* The context of a tile with a title and a channel was extracted after the
\* tile was hidden.
C31_Witness ==
    /\ Len(trace.contexts) = 1
    /\ trace.contexts[1].at = 2
    /\ trace.ops[1] = "hideVideo"
    /\ trace.contexts[1].value = ContextPool[1]

\* The position of a tile's tag name in the selector list of the page mode,
\* 0 when the list does not have it.
SelectorRank(t) ==
    LET selectors == getVideoSelectorsForPage(href)
        hits == {i \in Indices(selectors) : selectors[i] = dom[t].tag}
    IN  IF hits = {} THEN 0 ELSE CHOOSE i \in hits : TRUE

\* The tiles a cycle that starts now has to submit: in the document, of a
\* type of the page mode, undecided, with a title or a channel.
Submittable ==
    {t \in Tiles : /\ dom[t].status = "attached"
                   /\ SelectorRank(t) > 0
                   /\ t \notin processedVideos
                   /\ (dom[t].title # Null \/ dom[t].channel # Null)}

\* Selector by selector, and in document order within one selector.
InQueryOrder(batch) ==
    \A i, j \in Indices(batch) :
        i < j => \/ SelectorRank(batch[i]) < SelectorRank(batch[j])
                 \/ /\ SelectorRank(batch[i]) = SelectorRank(batch[j])
                    /\ batch[i] < batch[j]

\* C32: a step starts at most one classifier call; the batch of a call that
\* starts is made of exactly the undecided tiles of the page mode's types
\* that have a context, each once and in query order; no call starts when
\* there is no such tile, and the resumption of a cycle starts none.
C32_OneBatchPerCycle ==
    [][/\ Len(cycles') <= Len(cycles) + 1
       /\ Len(cycles') > Len(cycles) =>
             LET batch == cycles'[Len(cycles')].batch
             IN  /\ batch # <<>>
                 /\ SeqRange(batch) = Submittable
                 /\ Len(batch) = Cardinality(Submittable)
                 /\ InQueryOrder(batch)
                 /\ Len(cycles'[Len(cycles')].contexts) = Len(batch)
       /\ Submittable = {} => Len(cycles') <= Len(cycles)
       /\ ev'.op = "done" => Len(cycles') < Len(cycles)]_vars

\* On the search page a batch of two tiles is in flight whose order is the
\* order of the selectors, not of the document.
C32_Witness ==
    /\ href = SearchUrl
    /\ Len(cycles) = 1
    /\ cycles[1].batch = <<2, 1>>

\* A tile of a type of the page mode is inserted in this step.
ListedTileInserted ==
    \E t \in Tiles :
        /\ dom[t].status = "absent"
        /\ dom'[t].status = "attached"
        /\ \E i \in Indices(getVideoSelectorsForPage(href)) :
              getVideoSelectorsForPage(href)[i] = dom'[t].tag

\* C33: in every page mode the insertion of a tile of a type listed for the
\* mode starts the debounce timer of the mutation observer, whose expiry
\* calls debouncedScan.
C33_MutationCoverage ==
    [][ListedTileInserted => observerTimeout' = 1]_vars


\* A tile the page mode's selector matches, attached with an extractable
\* context, while the loaded topic list is not empty.
Pending(t) ==
    /\ dom[t].status = "attached"
    /\ extractVideoContext(dom[t]) # Null
    /\ excludedTopics # <<>>

\* C34: with a non-empty topic list, every tile that stays in the document
\* with an extractable context is eventually marked decided, for any
\* pattern of interval ticks, mutation triggers and settings changes that
\* reset the debounce timer.
C34_ProgressAnyPattern ==
    \A t \in OneTile : Pending(t) ~> (t \in processedVideos)


\* C35: the single-flight flag is set exactly while a scan cycle is
\* suspended at its classification call, at most one cycle is executing, and
\* a cycle that has ended, normally or after a classifier failure, has
\* released the flag.
C35_FlagHygiene ==
    /\ isScanning <=> cycles # <<>>
    /\ Len(cycles) <= 1
    /\ ev.op \in {"done", "idle"} => ~isScanning

\* A cycle whose classifier call failed has ended.
C35_Witness ==
    /\ ev.op = "done"
    /\ ev.batch # <<>>
    /\ ev.resp.kind = "neterror"
    /\ ~isScanning


\* The one response the handler owes to a TEXT_CLASSIFIER message.
OwedResponse(message, r) ==
    IF message.action = "CHECK_AVAILABILITY"
    THEN r.success /\ r.available = (availability = "available")
    ELSE IF message.action = "CLASSIFY"
    THEN IF sw.out.threw
         THEN ~r.success /\ r.error = sw.out.message /\ r.error # <<>>
         ELSE r.success /\ r.results = sw.out.value
    ELSE ~r.success /\ r.error = <<"Unknown action: " \o message.action>>

FailureReply(reply) ==
    reply.kind = "lastError" \/ (reply.kind = "response" /\ ~reply.success)

\* C36: a TEXT_CLASSIFIER message gets exactly one response, of the shape
\* its action and the outcome call for, and the listener returns true; a
\* message of another type gets no response and the listener returns false;
\* on a failure response or a runtime error classify rejects and isAvailable
\* returns false.
C36_MessageProtocol ==
    /\ gw.pc \in {"sent", "status", "handling"} => gw.responses = <<>>
    /\ (gw.pc \in {"replied", "done"} /\ gw.returned # "none") =>
          IF gw.message.type = "TEXT_CLASSIFIER"
          THEN /\ gw.returned = "true"
               /\ Len(gw.responses) = 1
               /\ OwedResponse(gw.message, gw.responses[1])
               /\ gw.reply = gw.responses[1]
          ELSE /\ gw.returned = "false"
               /\ gw.responses = <<>>
    /\ (gw.pc = "done" /\ gw.reply # NoReply /\ FailureReply(gw.reply)) =>
          /\ gw.caller = "classify" => gw.out.threw
          /\ gw.caller = "isAvailable" => ~gw.out.threw /\ gw.out.value = FALSE
    /\ \A reply \in Replies(1, 1) : FailureReply(reply) => ~isAvailable(reply)

\* classify has rejected on the failure response the handler sent for a
\* classification that threw.
C36_Witness ==
    /\ gw.pc = "done"
    /\ gw.caller = "classify"
    /\ gw.returned = "true"
    /\ Len(gw.responses) = 1
    /\ ~gw.responses[1].success
    /\ sw.out.threw
    /\ gw.out.threw


\* C37: when classifyParallel, classify or classifyBatch has resolved or
\* rejected, every session it created has been destroyed.
C37_SessionsReleased ==
    sw.pc = "done" =>
        \A id \in DOMAIN sessions :
            sessions[id].state = "live" => sessions[id].destroyed


\* A step in which a suspended cycle runs to its end and applies its
\* decisions to the tiles.
TileActionStep == Len(cycles') < Len(cycles)

\* Nothing is left to classify and no settings read is in flight.
Settled ==
    /\ pendingLoads = 0
    /\ cycles = <<>>
    /\ excludedTopics = <<>> \/ Unprocessed = <<>>

\* The host page and the stored settings stay as they are in this step.
HostQuiet ==
    /\ storage' = storage
    /\ href' = href
    /\ \A t \in Tiles : /\ dom'[t].status = dom[t].status
                         /\ dom'[t].title = dom[t].title
                         /\ dom'[t].channel = dom[t].channel

\* A URL change that the URL observer has not seen yet.
UrlChangePending == currentUrl # NoUrl /\ href # currentUrl

\* C38 as stated: the step that applies the tile actions starts no timer
\* and no cycle and never removes a tile from the decided set; and once
\* nothing is left to classify, no step other than a change of the host
\* page or of the settings dispatches a classifier call.
C38_NeverInvalidates ==
    /\ [][TileActionStep =>
            /\ observerTimeout' = observerTimeout
            /\ debounceTimers' = debounceTimers
            /\ urlTimers' = urlTimers
            /\ processedVideos \subseteq processedVideos'
            /\ Len(cycles') = Len(cycles) - 1]_vars
    /\ [][(Settled /\ HostQuiet) => (cycles' = <<>> /\ Settled')]_vars

\* C38, amended: the step that applies the tile actions starts no cycle
\* and no timer of the shared observer or of the debounce; it starts the
\* URL timer or removes a tile from the decided set only when a URL change
\* is pending, which the URL observer sees in that step; and once nothing
\* is left to classify, no step other than a change of the host page or of
\* the settings dispatches a classifier call.
C38_NoSelfTrigger ==
    /\ [][TileActionStep =>
            /\ observerTimeout' = observerTimeout
            /\ debounceTimers' = debounceTimers
            /\ Len(cycles') = Len(cycles) - 1
            /\ (urlTimers' # urlTimers \/ ~(processedVideos \subseteq processedVideos'))
                  => (UrlChangePending /\ ev'.cleared /\ currentUrl' = href)]_vars
    /\ [][(Settled /\ HostQuiet) => (cycles' = <<>> /\ Settled')]_vars

\* With the URL observer in place and no URL change pending, a scan that
\* ran after a tile was hidden and got its indicator found nothing to
\* classify.
C38_Witness ==
    /\ Settled
    /\ ev.op = "idle"
    /\ excludedTopics # <<>>
    /\ currentUrl = href
    /\ \E t \in Tiles : /\ dom[t].status = "attached"
                         /\ dom[t].indicators = 1
                         /\ t \in processedVideos


\* C39: starting from a tile the extension has not touched, after any
\* sequence of hideVideo, showVideo and deleteVideo calls the tile has at
\* most one indicator child, and has one exactly when it carries the
\* suppression class.
C39_IndicatorInvariant ==
    (~trace.before.cls /\ trace.before.indicators = 0) =>
        \A i \in Indices(trace.ops) :
            /\ StateAfter(i).indicators <= 1
            /\ StateAfter(i).indicators = 1 <=> StateAfter(i).cls

\* hideVideo, showVideo and hideVideo again ran on an untouched tile, which
\* ends with the class and one indicator.
C39_Witness ==
    /\ ~trace.before.cls
    /\ trace.before.indicators = 0
    /\ trace.ops = <<"hideVideo", "showVideo", "hideVideo">>
    /\ StateAfter(2).indicators = 0
    /\ StateAfter(3).indicators = 1
    /\ StateAfter(3).cls


\* The topic shown in the row that renderTopics draws in edit mode, if any.
EditedTopics(view) ==
    {view.topics[e + 1] : e \in {x \in view.editingIndex : x < Len(view.topics)}}

\* The handler of an add or of a removal, the only one in flight, which
\* acted on the list as it is rendered, resumes after its write and renders
\* the new list.
RenderAfterAddOrRemove ==
    /\ Len(popup.writes) = 1
    /\ popup'.writes = <<>>
    /\ popup.writes[1].op \in {"add", "remove"}
    /\ popup.last.op = popup.writes[1].op
    /\ ~popup.last.threw
    /\ popup.last.before = popup.rendered.topics

\* C40: while a topic is in edit mode, the rendering that follows the
\* removal or the addition of another topic leaves the edit row on the same
\* topic, or leaves no row in edit mode if that topic is no longer in the
\* list.
C40_EditRowStable ==
    [][RenderAfterAddOrRemove =>
          \A topic \in EditedTopics(popup.rendered) :
              EditedTopics(popup'.rendered) =
                  IF topic \in SeqRange(popup'.rendered.topics) THEN {topic} ELSE {}]_vars

====
